---- MODULE Spec2Model ----
(***************************************************************************)
(* Descriptor ring engine of the mlx4 poll-mode driver                     *)
(* (src/lib/librte_pmd_mlx4/mlx4.c), release build (-DNDEBUG: assert() is  *)
(* compiled out, MLX4_PMD_SOFT_COUNTERS is defined, MLX4_PMD_MAX_INLINE is *)
(* 0).                                                                     *)
(*                                                                         *)
(* Spec   : one TX ring (mlx4_tx_burst, txq_complete, txq_mp2mr,           *)
(*          txq_cleanup) with the send queue and completion queue of the   *)
(*          adapter.                                                       *)
(* SpecRx : one RX ring (rxq_alloc_elts[_sp], mlx4_rx_burst[_sp],          *)
(*          rxq_free_elts[_sp]) with the receive queue and completion      *)
(*          queue of the adapter.                                          *)
(* SpecReg: the TX ring when only ibv_reg_mr() fails.                      *)
(* SpecMr : the memory region cache of a TX ring (txq_mp2mr).              *)
(* SpecCtl: queue setup and MTU change on one RX and one TX queue index    *)
(*          (mlx4_rx_queue_setup, mlx4_tx_queue_setup, rxq_setup,          *)
(*          txq_setup, mlx4_dev_set_mtu), step by step, with burst calls   *)
(*          in between.                                                    *)
(* SpecLock: threads calling the control functions, which take and release *)
(*          priv->lock.                                                    *)
(* SpecScn: the TX ring set up for a number of descriptors, with bursts of *)
(*          one-segment packets and no failure.                            *)
(* SpecRxScn: the RX ring from rxq_setup() on.                             *)
(* SpecStats: the per-queue counters of a port and mlx4_stats_reset().     *)
(* SpecQuiesce: threads inside the receive function while                  *)
(*          mlx4_dev_set_mtu() or mlx4_dev_close() runs.                   *)
(***************************************************************************)
EXTENDS Integers, Sequences, FiniteSets, TLC

VARIABLES
    txq,      \* struct txq: the TX ring
    tally,    \* what the TX ring has done with the mbufs handed to it (ghost)
    submitted,\* number of packets the application has offered so far
    sq,       \* adapter: work requests accepted by post_send, not yet executed
    cq,       \* adapter: completions of the TX ring not yet polled
    mrs,      \* adapter: memory regions currently registered (ibv_reg_mr)
    call,     \* record of the last call on the TX ring (ghost)
    fault,    \* "none", or how the process stopped: "crash" / "hang" / "abort"
    rxq,      \* struct rxq: the RX ring
    rmbuf,    \* rxq->mp: who holds each mbuf, and what went wrong (ghost)
    rq,       \* adapter: receive work requests posted, not yet consumed
    rcq,      \* adapter: completions of the RX ring not yet polled
    rcall,    \* record of the last call on the RX ring (ghost)
    dev       \* the device: queue indexes, burst callbacks, control operation

vars == <<txq, tally, submitted, sq, cq, mrs, call, fault, rxq, rmbuf, rq, rcq, rcall, dev>>
txvars == <<txq, tally, submitted, sq, cq, mrs, call>>
rxvars == <<rxq, rmbuf, rq, rcq, rcall>>

(***************************************************************************)
(* Program constants and representation of C values.                       *)
(***************************************************************************)
\* Maximum number of scatter/gather elements per work request (build default).
MLX4_PMD_SGE_WR_N == 4
\* Number of entries of txq->mp2mr[].
MLX4_PMD_TX_MP_CACHE == 8
\* 2^16. The unsigned int fields of struct txq are 32 bits wide. A value v of
\* such a field is held here as the integer of least magnitude congruent to
\* v modulo 2^32 (the counter 2^32 - 1 is held as -1), so that additions and
\* subtractions need no reduction; what the code compares or divides is
\* taken from the unsigned value (UMin, UMod). The uint64_t statistics are
\* held the same way modulo 2^64.
UINT_HALF == 65536
\* A pointer to a TX mbuf is held as what it points to: the state of that
\* mbuf and the pkt_len of its packet. An mbuf of the burst in progress is
\* "burst" (with the index of its packet in pkts[]); once the call has
\* returned it is "tx" (its packet was reported sent: the ring owns it),
\* "caller" (reported unsent: the caller keeps it) or "dropped" (freed by the
\* driver when it dropped the packet).
NULL == [st |-> "NULL", idx |-> 0, pkt_len |-> 0]
MbufPtr(st, idx, pkt_len) == [st |-> st, idx |-> idx, pkt_len |-> pkt_len]
\* The null pointer among the mbufs of rxq->mp, which are numbered from 1.
NULLBUF == 0
\* The null struct txq_buf / work request pointer; ring elements are 0..elts_n-1.
NOELT == -1
\* (uint32_t)-1, the lkey txq_mp2mr() returns on failure.
BAD_LKEY == -1

(***************************************************************************)
(* Bounds of the model.                                                    *)
(***************************************************************************)
\* Size of the ring (in work requests) the TX queue is set up with.
EltsN == 3
\* Largest pkts_n handed to mlx4_tx_burst().
MaxBurst == 2
\* Packets the application submits in total.
MaxSubmitted == 4
\* Calls of txq_mp2mr() followed on a cache taken alone.
MaxResolves == 3
\* Mempools beyond those that fill the cache.
MrExtra == 2
\* Size of the ring (in work requests) the RX queue is set up with.
RxEltsN == 2
\* Mbufs of rxq->mp beyond those the ring is filled with.
RxSpare == 2
\* Largest pkts_n handed to mlx4_rx_burst[_sp]().
MaxRxBurst == 2
\* buf_len of the mbufs of rxq->mp, in bytes.
RxBufLen == 3
\* RTE_PKTMBUF_HEADROOM, in bytes (below RxBufLen).
RTE_PKTMBUF_HEADROOM == 1
\* Largest byte_len of a received packet.
MaxRxLen == 3
\* Packets the adapter receives in total.
MaxReceived == 4

Min(a, b) == IF a < b THEN a ELSE b
\* 2^32 modulo n.
Pow32Mod(n) == ((UINT_HALF % n) * (UINT_HALF % n)) % n
\* The count b whatever a is.
UMinCount(a, b) == b
\* The smaller of the unsigned int a and the small count b.
UMin(a, b) == IF a < 0 THEN b ELSE Min(a, b)
\* a % n for the unsigned int a.
UMod(a, n) == IF a < 0 THEN (Pow32Mod(n) + (a % n)) % n ELSE a % n

SGE == 1..MLX4_PMD_SGE_WR_N
Slots(q) == 0..(q.elts_n - 1)

(***************************************************************************)
(* Packets offered to mlx4_tx_burst(): a chain of segments, each with the  *)
(* mempool it comes from and its data_len.                                 *)
(***************************************************************************)
Seg(p, l) == [pool |-> p, len |-> l]
\* One segment.
ShapeOne == <<Seg(1, 1)>>
\* One segment more than a work request carries.
ShapeTooMany == [i \in 1..(MLX4_PMD_SGE_WR_N + 1) |-> Seg(1, 1)]
\* A second segment with data_len == 0.
ShapeEmptySeg == <<Seg(1, 1), Seg(1, 0)>>
\* One segment from a second mempool.
ShapeOtherPool == <<Seg(2, 1)>>
PktShapes == {ShapeOne, ShapeTooMany, ShapeEmptySeg, ShapeOtherPool}
\* The mempools whose registration the adapter may refuse.
FailingPools == {2}

RECURSIVE SumLen(_)
SumLen(segs) == IF segs = <<>> THEN 0 ELSE Head(segs).len + SumLen(Tail(segs))

\* The mbuf chain pkts[idx] of a packet of the given shape.
MkPkt(shape, idx) ==
    [i \in 1..Len(shape) |->
        [buf |-> MbufPtr("burst", idx, SumLen(shape)), pool |-> shape[i].pool,
         len |-> shape[i].len]]

MkPkts(shapes) == [idx \in 1..Len(shapes) |-> MkPkt(shapes[idx], idx)]

(***************************************************************************)
(* A TX call works on a machine m: m.q (struct txq), m.cq, m.sq and m.mrs  *)
(* (the adapter), m.fault, m.tally, and the local variables of the         *)
(* function being executed. Each operator below is a stretch of the source *)
(* and maps the machine before it to the machine after it.                 *)
(***************************************************************************)
\* rte_pktmbuf_free_seg(): NULL is dereferenced; an mbuf goes back to its
\* pool. The tally records whose mbuf it was: one the ring owed a free
\* ("tx"), one of a packet being dropped ("burst"), one that had been freed
\* before ("dropped": a second free), or one the caller holds ("caller").
rte_pktmbuf_free_seg(m, b) ==
    IF m.fault # "none" THEN m
    ELSE IF b = NULL THEN [m EXCEPT !.fault = "crash"]
    ELSE IF b.st = "tx" THEN [m EXCEPT !.tally.owed = @ - 1, !.nfreed = @ + 1]
    ELSE IF b.st = "burst" THEN [m EXCEPT !.ndropfree = @ + 1]
    ELSE IF b.st = "dropped"
    THEN [m EXCEPT !.tally.twice = TRUE, !.nfreed = @ + 1, !.nbad = @ + 1]
    ELSE [m EXCEPT !.tally.stolen = TRUE, !.nfreed = @ + 1, !.nbad = @ + 1]

RECURSIVE rte_pktmbuf_free(_, _)
\* rte_pktmbuf_free(): frees every segment of the chain.
rte_pktmbuf_free(m, pkt) ==
    IF pkt = <<>> THEN m
    ELSE rte_pktmbuf_free(rte_pktmbuf_free_seg(m, Head(pkt).buf), Tail(pkt))

\* txq_alloc_elts(): the ring after setup.
txq_alloc_elts(n) ==
    [elts_n |-> n,
     elts_wr |-> [s \in 0..(n - 1) |->
                    [num_sge |-> MLX4_PMD_SGE_WR_N, next |-> NOELT, signaled |-> TRUE]],
     elts_buf |-> [s \in 0..(n - 1) |->
                    [bufs |-> [j \in SGE |-> NULL], comp |-> NOELT]],
     elts_cur |-> 0, elts_comp |-> 0, elts_used |-> 0, elts_free |-> n,
     lost_comp |-> NOELT,
     mp2mr |-> <<>>,
     stats |-> [opackets |-> 0, obytes |-> 0, odropped |-> 0]]

RECURSIVE FreeEltBufs(_, _, _)
\* The do { } while of txq_complete(): frees bufs[j] without a test, clears
\* the entry, and goes on while the next entry exists and is not NULL.
FreeEltBufs(m, s, j) ==
    IF m.fault # "none" THEN m
    ELSE IF j > 1 /\ (j > MLX4_PMD_SGE_WR_N \/ m.q.elts_buf[s].bufs[j] = NULL) THEN m
    ELSE FreeEltBufs(rte_pktmbuf_free_seg([m EXCEPT !.q.elts_buf[s].bufs[j] = NULL],
                                          m.q.elts_buf[s].bufs[j]),
                     s, j + 1)

\* One element reclaimed: its buffers freed, --elts_used, ++elts_free (the
\* function's local copies, kept in m.used / m.free).
ReclaimElt(m, s) ==
    [FreeEltBufs(m, s, 1) EXCEPT !.used = @ - 1, !.free = @ + 1,
                                 !.reclaimed = Append(@, s)]

RECURSIVE ClearLostComp(_)
\* "Clear lost completion events": the while loop over txq->lost_comp.
ClearLostComp(m) ==
    IF m.fault # "none" \/ m.q.lost_comp = NOELT THEN m
    ELSE ClearLostComp(ReclaimElt([m EXCEPT !.q.lost_comp = m.q.elts_buf[m.q.lost_comp].comp],
                                  m.q.lost_comp))

RECURSIVE FreeCompChain(_, _)
\* "Free all buffers associated to this completion event": the do { } while
\* over the comp links, entered with the element the completion names.
FreeCompChain(m, s) ==
    IF m.fault # "none" \/ s = NOELT THEN m
    ELSE FreeCompChain(ReclaimElt(m, s), m.q.elts_buf[s].comp)

\* A completion whose status is not IBV_WC_SUCCESS.
BadCompletion(m, wc) ==
    IF wc.status # "success"
    THEN [m EXCEPT !.q.stats.odropped = @ + 1, !.cret = -1]
    ELSE m

RECURSIVE ProcessWcs(_, _)
\* The for loop of txq_complete() over the polled completions.
ProcessWcs(m, wcs) ==
    IF wcs = <<>> \/ m.fault # "none" THEN m
    ELSE ProcessWcs([FreeCompChain(BadCompletion(m, Head(wcs)), Head(wcs).wr_id)
                        EXCEPT !.comp = @ - 1],
                    Tail(wcs))

\* The entry of txq_complete(): the counters are copied to locals.
CompleteEntry(m) ==
    [m EXCEPT !.used = m.q.elts_used, !.free = m.q.elts_free, !.comp = m.q.elts_comp,
              !.cret = 0, !.wcs_n = 0, !.reclaimed = <<>>]

\* ibv_poll_cq(txq->cq, elts_comp, wcs) returning n completions.
PollCq(m, n) ==
    [m EXCEPT !.cq = SubSeq(m.cq, n + 1, Len(m.cq)), !.wcs_n = n]

\* The end of txq_complete() with elts_comp left as it was at entry.
CompleteStoreUsed(m) ==
    [m EXCEPT !.q.elts_used = m.used, !.q.elts_free = m.free]

\* The end of txq_complete(): the locals are stored.
CompleteStore(m) ==
    [m EXCEPT !.q.elts_comp = m.comp, !.q.elts_used = m.used, !.q.elts_free = m.free]

\* txq_complete() up to the end of "Clear lost completion events".
\* pollErr: ibv_poll_cq() fails. m.wcs_n is left at 0 when the function has
\* returned 0 and at -1 when it has returned -1.
CompleteDrain(m, pollErr) ==
    IF m.q.elts_comp = 0 THEN CompleteEntry(m)
    ELSE IF pollErr THEN [CompleteEntry(m) EXCEPT !.cret = -1, !.wcs_n = -1]
    ELSE IF UMin(m.q.elts_comp, Len(m.cq)) = 0 THEN CompleteEntry(m)
    ELSE ClearLostComp(PollCq(CompleteEntry(m), UMin(m.q.elts_comp, Len(m.cq))))

\* txq_complete() from there: wcs are the completions polled.
CompleteRest(m, wcs) ==
    IF m.wcs_n <= 0 THEN m
    ELSE CompleteStore(ProcessWcs(m, SubSeq(wcs, 1, m.wcs_n)))

\* txq_complete().
txq_complete(m, pollErr) == CompleteRest(CompleteDrain(m, pollErr), m.cq)

(***************************************************************************)
(* txq_mp2mr(): the mempool -> memory region cache of the TX ring.         *)
(***************************************************************************)
\* The scan of txq_mp2mr() when it looks at entry 0 only.
Mp2mrFindFirstOnly(tbl, mp) ==
    IF Len(tbl) > 0 /\ tbl[1].mp = mp THEN 1 ELSE 0

\* Index (from 1) of the entry of pool mp in the occupied prefix, 0 if none.
Mp2mrFind(tbl, mp) ==
    IF \E i \in 1..Len(tbl) : tbl[i].mp = mp
    THEN CHOOSE i \in 1..Len(tbl) : tbl[i].mp = mp
    ELSE 0

\* txq_mp2mr() with the memmove() of the full table left out: the new entry
\* takes the place of the last one.
Mp2mrStoreLast(m, mp, mr) ==
    IF Len(m.q.mp2mr) = MLX4_PMD_TX_MP_CACHE
    THEN [m EXCEPT !.q.mp2mr = Append(SubSeq(@, 1, MLX4_PMD_TX_MP_CACHE - 1),
                                      [mp |-> mp, mr |-> mr, lkey |-> mr]),
                   !.mrs = [n |-> mr,
                            reg |-> (@.reg \ {m.q.mp2mr[MLX4_PMD_TX_MP_CACHE].mr}) \cup {mr}],
                   !.lkey = mr]
    ELSE [m EXCEPT !.q.mp2mr = Append(@, [mp |-> mp, mr |-> mr, lkey |-> mr]),
                   !.mrs = [n |-> mr, reg |-> @.reg \cup {mr}],
                   !.lkey = mr]

\* The miss path of txq_mp2mr() once ibv_reg_mr() has returned mr. With the
\* cache full: --i; ibv_dereg_mr(mp2mr[i].mr); memmove(&mp2mr[0], &mp2mr[1]).
Mp2mrStore(m, mp, mr) ==
    IF Len(m.q.mp2mr) = MLX4_PMD_TX_MP_CACHE
    THEN [m EXCEPT !.q.mp2mr = Append(Tail(@), [mp |-> mp, mr |-> mr, lkey |-> mr]),
                   !.mrs = [n |-> mr,
                            reg |-> (@.reg \ {m.q.mp2mr[MLX4_PMD_TX_MP_CACHE].mr}) \cup {mr}],
                   !.lkey = mr]
    ELSE [m EXCEPT !.q.mp2mr = Append(@, [mp |-> mp, mr |-> mr, lkey |-> mr]),
                   !.mrs = [n |-> mr, reg |-> @.reg \cup {mr}],
                   !.lkey = mr]

\* txq_mp2mr(txq, mp): the lkey is left in m.lkey. failReg: the pools
\* ibv_reg_mr() refuses in this call.
txq_mp2mr(m, mp, failReg) ==
    IF Mp2mrFind(m.q.mp2mr, mp) # 0
    THEN [m EXCEPT !.lkey = m.q.mp2mr[Mp2mrFind(m.q.mp2mr, mp)].lkey]
    ELSE IF mp \in failReg THEN [m EXCEPT !.lkey = BAD_LKEY]
    ELSE Mp2mrStore(m, mp, m.mrs.n + 1)

(***************************************************************************)
(* mlx4_tx_burst(). Its locals are m.max, m.elts_cur, m.wr_next (the       *)
(* element whose wr.next the next link is written to, NOELT for            *)
(* head.next), m.head_next, m.elt_prev, m.dropped, m.i, and for the        *)
(* segment loop m.seg_n, m.sent_size and m.left (the loop ended with       *)
(* buf != NULL). m.fates records what became of each packet.               *)
(***************************************************************************)
RECURSIVE RegisterSegs(_, _, _, _)
RECURSIVE RegisterSeg(_, _, _, _)
\* "Register each segment as SGEs": the for loop over the segments of one
\* packet, writing element m.elts_cur.
RegisterSegs(m, segs, isHead, failReg) ==
    IF segs = <<>> THEN [m EXCEPT !.left = FALSE]
    ELSE IF m.seg_n = MLX4_PMD_SGE_WR_N THEN [m EXCEPT !.left = TRUE]
    ELSE RegisterSeg(txq_mp2mr(m, Head(segs).pool, failReg), segs, isHead, failReg)

\* The body of that loop once txq_mp2mr() has returned.
RegisterSeg(m, segs, isHead, failReg) ==
    IF m.lkey = BAD_LKEY THEN [m EXCEPT !.left = TRUE]
    ELSE IF Head(segs).len = 0 /\ ~isHead
    THEN RegisterSegs(m, Tail(segs), FALSE, failReg)
    ELSE RegisterSegs([m EXCEPT !.q.elts_buf[m.elts_cur].bufs[m.seg_n + 1] = Head(segs).buf,
                                !.seg_n = @ + 1,
                                !.sent_size = @ + Head(segs).len],
                      Tail(segs), FALSE, failReg)

\* The head of the for loop over pkts[]: *wr_next = wr;
\* wr->send_flags &= ~IBV_SEND_SIGNALED; elt_buf->comp = elt_prev;
LinkWr(m) ==
    [(IF m.wr_next = NOELT
      THEN [m EXCEPT !.head_next = m.elts_cur]
      ELSE [m EXCEPT !.q.elts_wr[m.wr_next].next = m.elts_cur])
        EXCEPT !.q.elts_wr[m.elts_cur].signaled = FALSE,
               !.q.elts_buf[m.elts_cur].comp = m.elt_prev,
               !.seg_n = 0, !.sent_size = 0]

\* wr_next = &wr->next; elt_prev = elt_buf; ++txq->stats.opackets;
PktNext(m, cur, kind) ==
    [m EXCEPT !.wr_next = cur, !.elt_prev = cur,
              !.q.stats.opackets = @ + 1,
              !.fates = Append(@, [kind |-> kind, elt |-> cur])]

\* The rest of the iteration: obytes, then either the packet is ignored
\* (too many segments, or no memory region) or the work request is
\* completed and elts_cur advances.
PktEnd(m, pkt) ==
    IF m.left
    THEN PktNext([rte_pktmbuf_free([m EXCEPT !.q.stats.obytes = @ + m.sent_size], pkt)
                    EXCEPT !.dropped = @ + 1,
                           !.q.elts_wr[m.elts_cur].num_sge = 0],
                 m.elts_cur, "dropped")
    ELSE PktNext([m EXCEPT !.q.stats.obytes = @ + m.sent_size,
                           !.q.elts_wr[m.elts_cur].num_sge = m.seg_n,
                           !.elts_cur = IF @ + 1 = m.q.elts_n THEN 0 ELSE @ + 1],
                 m.elts_cur, "queued")

\* One iteration of the for loop over pkts[].
TxOnePkt(m, pkt, failReg) == PktEnd(RegisterSegs(LinkWr(m), pkt, TRUE, failReg), pkt)

RECURSIVE TxPktLoop(_, _, _)
TxPktLoop(m, pkts, failReg) ==
    IF pkts = <<>> THEN m
    ELSE TxPktLoop(TxOnePkt(m, Head(pkts), failReg), Tail(pkts), failReg)

RECURSIVE WrChain(_, _)
\* The work requests ibv_post_send() walks from head.next through wr.next.
WrChain(wr, s) == IF s = NOELT THEN <<>> ELSE <<s>> \o WrChain(wr, wr[s].next)

\* *wr_next = NULL; the last WR is the only one asking for a completion.
CloseChain(m) ==
    [m EXCEPT !.q.elts_wr[m.wr_next].next = NOELT,
              !.q.elts_wr[m.wr_next].signaled = TRUE]

\* What the adapter keeps of an accepted work request.
SqEntry(q, s) ==
    [wr_id |-> s, num_sge |-> q.elts_wr[s].num_sge, signaled |-> q.elts_wr[s].signaled]

\* mlx4_post_send(txq->qp, head.next, &bad_wr) taking the first k work
\* requests of the chain; with k short of the chain, bad_wr is the next one.
PostSend(m, chain, k) ==
    [m EXCEPT !.sq = @ \o [x \in 1..k |-> SqEntry(m.q, chain[x])],
              !.posted = TRUE, !.chain = chain, !.k = k, !.err = k < Len(chain)]

RECURSIVE Rewind(_, _, _, _, _)
\* "Recalculate the number of empty packets dropped from the previous loop
\* and rewind elt_buf": follows comp from the rejected element to the first
\* element of the burst. A walk longer than the ring never ends.
Rewind(q, s, i, dropped, fuel) ==
    IF q.elts_buf[s].comp = NOELT THEN [i |-> i, dropped |-> dropped, first |-> s, hang |-> FALSE]
    ELSE IF fuel = 0 THEN [i |-> i, dropped |-> dropped, first |-> s, hang |-> TRUE]
    ELSE Rewind(q, q.elts_buf[s].comp, i + 1,
                IF q.elts_wr[s].num_sge = 0 THEN dropped + 1 ELSE dropped, fuel - 1)

RECURSIVE UncountUnsent(_, _)
\* "Decrement packets and bytes counters for each element that won't be
\* sent": from the rejected work request through wr.next.
UncountUnsent(m, s) ==
    IF m.q.elts_buf[s].bufs[1] = NULL THEN [m EXCEPT !.fault = "crash"]
    ELSE IF m.q.elts_wr[s].next = NOELT
    THEN [m EXCEPT !.q.stats.opackets = @ - 1,
                   !.q.stats.obytes = @ - m.q.elts_buf[s].bufs[1].pkt_len]
    ELSE UncountUnsent([m EXCEPT !.q.stats.opackets = @ - 1,
                                 !.q.stats.obytes = @ - m.q.elts_buf[s].bufs[1].pkt_len],
                       m.q.elts_wr[s].next)

\* "Rollback elts_cur": elts_cur -= (max - i - dropped); elts_cur %= elts_n;
RollbackCur(elts_cur, max, i, dropped, elts_n) ==
    UMod(elts_cur - (max - i - dropped), elts_n)

\* mlx4_tx_burst() without the "if (elt_prev->comp != NULL)" block: the
\* elements the rewind walked over are left off the list.
LinkLostSkipped(m, bad, first) == m

\* "Completion event has been lost. Link these elements to the list of those
\* without a completion event": bad is the element of the rejected work
\* request, first the element the rewind stopped at.
LinkLost(m, bad, first) ==
    IF m.q.elts_buf[bad].comp # NOELT
    THEN [m EXCEPT !.q.elts_buf[first].comp = m.q.lost_comp,
                   !.q.lost_comp = m.q.elts_buf[bad].comp]
    ELSE m

\* The if (unlikely(err)) branch once the rewind rw has been computed.
PostFailed(m, bad, rw) ==
    IF rw.hang THEN [m EXCEPT !.fault = "hang"]
    ELSE UncountUnsent([LinkLost(m, bad, rw.first)
                            EXCEPT !.i = rw.i, !.dropped = rw.dropped,
                                   !.elts_cur = RollbackCur(@, m.max, rw.i, rw.dropped,
                                                            m.q.elts_n)],
                       bad)

\* The tail of mlx4_tx_burst(): the counters stored before returning i.
TxStore(m) ==
    [m EXCEPT !.q.elts_used = @ + (m.i - m.dropped),
              !.q.elts_free = @ - (m.i - m.dropped),
              !.q.elts_cur = m.elts_cur,
              !.q.stats.odropped = @ + m.dropped,
              !.ret = m.i]

\* From mlx4_post_send() to the end. accept: how many work requests the
\* adapter takes before rejecting one (0: all of them).
TxPost(m, chain, badPos) ==
    IF badPos = 0 \/ badPos > Len(chain)
    THEN TxStore([PostSend(m, chain, Len(chain)) EXCEPT !.q.elts_comp = @ + 1, !.i = m.max])
    ELSE TxStore(PostFailed(PostSend(m, chain, badPos - 1), chain[badPos],
                            Rewind(m.q, chain[badPos], 0, 0, m.q.elts_n)))

\* After the for loop over pkts[].
TxAfterLoop(m, badPos) ==
    IF m.dropped = m.max THEN [m EXCEPT !.ret = 0]
    ELSE TxPost(CloseChain(m), WrChain(CloseChain(m).q.elts_wr, m.head_next), badPos)

\* mlx4_tx_burst() after txq_complete().
TxBody(m, pkts, failReg, badPos) ==
    IF m.fault # "none" \/ Len(pkts) = 0 \/ UMin(m.q.elts_free, Len(pkts)) = 0
    THEN [m EXCEPT !.ret = 0]
    ELSE TxAfterLoop(
            TxPktLoop([m EXCEPT !.max = UMin(m.q.elts_free, Len(pkts)),
                                !.elts_cur = m.q.elts_cur],
                      SubSeq(pkts, 1, UMin(m.q.elts_free, Len(pkts))), failReg),
            badPos)

\* mlx4_tx_burst(txq, pkts, pkts_n); the returned count is left in m.ret.
\* pollErr: ibv_poll_cq() fails; failReg: the pools ibv_reg_mr() refuses;
\* badPos: the position in the posted chain of the work request
\* mlx4_post_send() rejects (0, or past the end: none).
mlx4_tx_burst(m, pkts, failReg, pollErr, badPos) ==
    TxBody(txq_complete(m, pollErr), pkts, failReg, badPos)

RECURSIVE FreeAllBufs(_, _, _)
\* txq_free_elts() as called by txq_cleanup(): every non-NULL bufs[] entry of
\* every element is freed.
FreeAllBufs(m, s, j) ==
    IF s = m.q.elts_n THEN m
    ELSE IF j > MLX4_PMD_SGE_WR_N THEN FreeAllBufs(m, s + 1, 1)
    ELSE IF m.q.elts_buf[s].bufs[j] = NULL THEN FreeAllBufs(m, s, j + 1)
    ELSE FreeAllBufs(rte_pktmbuf_free_seg(m, m.q.elts_buf[s].bufs[j]), s, j + 1)

\* txq_cleanup(): frees the elements, deregisters the cached memory regions
\* and zeroes the structure.
txq_cleanup(m) ==
    [FreeAllBufs(m, 0, 1)
        EXCEPT !.q = txq_alloc_elts(0),
               !.mrs.reg = @ \ {m.q.mp2mr[i].mr : i \in 1..Len(m.q.mp2mr)}]

(***************************************************************************)
(* The TX ring as a state machine.                                         *)
(***************************************************************************)
RECURSIVE LostList(_, _, _)
\* The elements on txq->lost_comp, in list order (at most fuel of them).
LostList(q, s, fuel) ==
    IF s = NOELT \/ fuel = 0 THEN <<>>
    ELSE <<s>> \o LostList(q, q.elts_buf[s].comp, fuel - 1)

Lost(q) == LostList(q, q.lost_comp, q.elts_n + 1)

\* The machine a call starts from: the variables, and the locals unset.
Machine ==
    [q |-> txq, tally |-> tally, cq |-> cq, sq |-> sq, mrs |-> mrs, fault |-> fault,
     nfreed |-> 0, nbad |-> 0, ndropfree |-> 0,
     used |-> 0, free |-> 0, comp |-> 0, cret |-> 0, wcs_n |-> 0, reclaimed |-> <<>>,
     lkey |-> 0, seg_n |-> 0, sent_size |-> 0, left |-> FALSE,
     max |-> 0, elts_cur |-> 0, wr_next |-> NOELT, head_next |-> NOELT,
     elt_prev |-> NOELT, dropped |-> 0, i |-> 0, fates |-> <<>>,
     posted |-> FALSE, chain |-> <<>>, k |-> 0, err |-> FALSE, ret |-> 0]

NoCall == [op |-> "none"]
Unused == "unused"

\* What became of packet idx for the application: freed by the driver as
\* dropped, reported sent (below the returned count), or left with the caller.
PktState(r, idx) ==
    IF idx <= Len(r.fates) /\ r.fates[idx].kind = "dropped" THEN "dropped"
    ELSE IF idx <= r.ret THEN "tx"
    ELSE "caller"

\* A pointer once the call has returned: the mbufs of the burst get the
\* state of their packet.
SettlePtr(b, r) ==
    IF b.st = "burst" THEN MbufPtr(PktState(r, b.idx), 0, b.pkt_len) ELSE b

\* struct txq once the call has returned.
Settle(r) ==
    [r.q EXCEPT !.elts_buf = [s \in Slots(r.q) |->
        [r.q.elts_buf[s] EXCEPT !.bufs = [j \in SGE |-> SettlePtr(r.q.elts_buf[s].bufs[j], r)]]]]

\* The number of mbufs in the packets of the burst that are in state st.
SegsIn(pkts, r, st) ==
    LET n[idx \in 0..Len(pkts)] ==
            IF idx = 0 THEN 0
            ELSE n[idx - 1] + (IF PktState(r, idx) = st THEN Len(pkts[idx]) ELSE 0)
    IN  n[Len(pkts)]

\* Whether packet idx of the burst sits in a work request the adapter took:
\* it was queued in an element among the first k of the chain and no later
\* packet of the burst was written over it.
PktAccepted(r, idx) ==
    /\ r.fates[idx].kind = "queued"
    /\ \E x \in 1..r.k : r.chain[x] = r.fates[idx].elt
    /\ \A j \in (idx + 1)..Len(r.fates) : r.fates[j].elt # r.fates[idx].elt

\* The observations of a call of mlx4_tx_burst() the properties below refer
\* to: q the ring at entry, md the machine after the lost completions were
\* cleared, mc the machine as txq_complete() left it, r the machine at
\* return.
TxCall(q, pkts, md, mc, r) ==
    [op |-> "tx_burst",
     pkts_n |-> Len(pkts),
     ret |-> r.ret,
     max |-> r.max,
     posted |-> r.posted,
     err |-> r.err,
     chain |-> r.chain,
     k |-> r.k,
     ndropped |-> Cardinality({i \in 1..Len(r.fates) : r.fates[i].kind = "dropped"}),
     naccepted |-> Cardinality({i \in 1..Len(r.fates) : PktAccepted(r, i)}),
     ndropsegs |-> SegsIn(pkts, r, "dropped"),
     ndropfree |-> r.ndropfree,
     wcs_n |-> mc.wcs_n,
     entry |-> [lost |-> Lost(q), elts_used |-> q.elts_used, elts_free |-> q.elts_free],
     drain |-> [reclaimed |-> md.reclaimed, nfreed |-> md.nfreed, nbad |-> md.nbad,
                used |-> md.used, free |-> md.free],
     reclaimed |-> mc.reclaimed,
     mid |-> [lost |-> Lost(mc.q), elts_used |-> mc.q.elts_used,
              elts_free |-> mc.q.elts_free, elts_comp |-> mc.q.elts_comp,
              odropped |-> mc.q.stats.odropped]]

Init ==
    /\ txq = txq_alloc_elts(EltsN)
    /\ tally = [owed |-> 0, twice |-> FALSE, stolen |-> FALSE]
    /\ submitted = 0
    /\ sq = <<>>
    /\ cq = <<>>
    /\ mrs = [n |-> 0, reg |-> {}]
    /\ call = NoCall
    /\ fault = "none"
    /\ rxq = Unused /\ rmbuf = Unused /\ rq = Unused /\ rcq = Unused /\ rcall = Unused
    /\ dev = Unused

BurstShapes == UNION {[1..n -> PktShapes] : n \in 0..MaxBurst}
\* ibv_reg_mr() is only called for a pool that is not in the cache yet.
RegFailures(shapes) ==
    LET used == UNION {{shapes[i][j].pool : j \in 1..Len(shapes[i])} : i \in 1..Len(shapes)}
        cached == {txq.mp2mr[i].mp : i \in 1..Len(txq.mp2mr)}
    IN  SUBSET ((used \ cached) \cap FailingPools)
\* ibv_poll_cq() is only called while completions are awaited.
PollFailures == IF txq.elts_comp = 0 THEN {FALSE} ELSE BOOLEAN

\* The effect on the variables of a call that took the machine to r. A call
\* that crashed or hung leaves the process stopped.
TxBurstDone(pkts, md, mc, r) ==
    IF r.fault # "none"
    THEN /\ fault' = r.fault
         /\ call' = [op |-> "fault", in_drain |-> md.fault # "none",
                      in_complete |-> mc.fault # "none"]
         /\ UNCHANGED <<txq, tally, sq, cq, mrs>>
    ELSE /\ txq' = Settle(r)
         /\ tally' = [r.tally EXCEPT !.owed = @ + SegsIn(pkts, r, "tx")]
         /\ sq' = r.sq
         /\ cq' = r.cq
         /\ mrs' = r.mrs
         /\ fault' = r.fault
         /\ call' = TxCall(txq, pkts, md, mc, r)

\* The application calls mlx4_tx_burst() with freshly built packets.
TxBurst ==
    /\ fault = "none"
    /\ txq.elts_n > 0
    /\ \E shapes \in BurstShapes :
       \E failReg \in RegFailures(shapes), pollErr \in PollFailures,
          badPos \in 0..Len(shapes) :
            /\ submitted + Len(shapes) <= MaxSubmitted
            /\ submitted' = submitted + Len(shapes)
            /\ TxBurstDone(MkPkts(shapes), CompleteDrain(Machine, pollErr),
                           txq_complete(Machine, pollErr),
                           mlx4_tx_burst(Machine, MkPkts(shapes), failReg, pollErr, badPos))
    /\ UNCHANGED <<rxvars, dev>>

\* The adapter executes the oldest work request of the send queue; a
\* signaled one leaves a completion, successful or not.
HwSend ==
    /\ fault = "none"
    /\ sq # <<>>
    /\ sq' = Tail(sq)
    /\ \/ /\ Head(sq).signaled
          /\ \E st \in {"success", "error"} :
                cq' = Append(cq, [wr_id |-> Head(sq).wr_id, status |-> st])
       \/ /\ ~Head(sq).signaled
          /\ cq' = cq
    /\ call' = [op |-> "hw"]
    /\ UNCHANGED <<txq, tally, submitted, mrs, fault>>
    /\ UNCHANGED <<rxvars, dev>>

\* The effect on the variables of txq_cleanup() taking the machine to r.
TxCleanupDone(r) ==
    /\ txq' = r.q
    /\ tally' = r.tally
    /\ mrs' = r.mrs
    /\ fault' = r.fault
    /\ call' = [op |-> "cleanup"]

\* The queue is released: txq_cleanup().
TxCleanup ==
    /\ fault = "none"
    /\ txq.elts_n > 0
    /\ TxCleanupDone(txq_cleanup(Machine))
    /\ sq' = <<>>
    /\ cq' = <<>>
    /\ UNCHANGED submitted
    /\ UNCHANGED <<rxvars, dev>>

Next == TxBurst \/ HwSend \/ TxCleanup

Spec == Init /\ [][Next]_vars

(***************************************************************************)
(* The TX ring when nothing goes wrong but ibv_reg_mr(): the packets have  *)
(* one segment, mlx4_post_send() and ibv_poll_cq() succeed and every work  *)
(* request completes successfully.                                         *)
(***************************************************************************)
RegShapes == UNION {[1..n -> {ShapeOne, ShapeOtherPool}] : n \in 0..MaxBurst}

\* The application calls mlx4_tx_burst(); ibv_reg_mr() may fail for a
\* mempool that is not in the cache.
TxBurstReg ==
    /\ fault = "none"
    /\ txq.elts_n > 0
    /\ \E shapes \in RegShapes :
       \E failReg \in RegFailures(shapes) :
            /\ submitted + Len(shapes) <= MaxSubmitted
            /\ submitted' = submitted + Len(shapes)
            /\ TxBurstDone(MkPkts(shapes), CompleteDrain(Machine, FALSE),
                           txq_complete(Machine, FALSE),
                           mlx4_tx_burst(Machine, MkPkts(shapes), failReg, FALSE, 0))
    /\ UNCHANGED <<rxvars, dev>>

\* The adapter executes the oldest work request of the send queue; a
\* signaled one leaves a successful completion.
HwSendOk ==
    /\ fault = "none"
    /\ sq # <<>>
    /\ sq' = Tail(sq)
    /\ cq' = IF Head(sq).signaled
              THEN Append(cq, [wr_id |-> Head(sq).wr_id, status |-> "success"])
              ELSE cq
    /\ call' = [op |-> "hw"]
    /\ UNCHANGED <<txq, tally, submitted, mrs, fault>>
    /\ UNCHANGED <<rxvars, dev>>

NextReg == TxBurstReg \/ HwSendOk

SpecReg == Init /\ [][NextReg]_vars

(***************************************************************************)
(* The memory region cache of a TX ring taken alone: txq_mp2mr() is called *)
(* as mlx4_tx_burst() calls it for a segment, on a cache that earlier      *)
(* calls have filled with the first k mempools.                            *)
(***************************************************************************)
MrPools == 1..(MLX4_PMD_TX_MP_CACHE + MrExtra)

RECURSIVE MrFilled(_)
\* A new ring after txq_mp2mr() has been called for the mempools 1..k.
MrFilled(k) ==
    IF k = 0
    THEN [q |-> txq_alloc_elts(EltsN), mrs |-> [n |-> 0, reg |-> {}], lkey |-> 0]
    ELSE txq_mp2mr(MrFilled(k - 1), k, {})

InitMr ==
    /\ \E k \in 0..MLX4_PMD_TX_MP_CACHE :
        /\ txq = MrFilled(k).q
        /\ mrs = MrFilled(k).mrs
    /\ tally = [owed |-> 0, twice |-> FALSE, stolen |-> FALSE]
    /\ submitted = 0
    /\ sq = <<>>
    /\ cq = <<>>
    /\ call = NoCall
    /\ fault = "none"
    /\ rxq = Unused /\ rmbuf = Unused /\ rq = Unused /\ rcq = Unused /\ rcall = Unused
    /\ dev = Unused

\* The effect on the variables of txq_mp2mr(txq, mp) taking the machine to
\* r; the call record keeps the table and the registered regions as they
\* were before.
MrResolveDone(mp, r) ==
    /\ txq' = r.q
    /\ mrs' = r.mrs
    /\ call' = [op |-> "mp2mr", mp |-> mp, lkey |-> r.lkey,
                 table |-> txq.mp2mr, reg |-> mrs.reg, n |-> mrs.n]

\* txq_mp2mr() is called for a segment of mempool mp; ibv_reg_mr() may fail.
MrResolve ==
    /\ fault = "none"
    /\ txq.elts_n > 0
    /\ submitted < MaxResolves
    /\ submitted' = submitted + 1
    /\ \E mp \in MrPools, fail \in BOOLEAN :
            MrResolveDone(mp, txq_mp2mr(Machine, mp, IF fail THEN {mp} ELSE {}))
    /\ UNCHANGED <<tally, sq, cq, fault>>
    /\ UNCHANGED <<rxvars, dev>>

NextMr == MrResolve \/ TxCleanup

SpecMr == InitMr /\ [][NextMr]_vars

(***************************************************************************)
(* The RX ring. A call works on a machine x: x.q (struct rxq), x.mb (the   *)
(* mempool), x.rq and x.cq (the adapter), x.fault, and the locals of       *)
(* mlx4_rx_burst[_sp](): x.wcs_n, x.ret, x.pkts (the packets stored        *)
(* through pkts), x.chain (the elements linked for repost), x.rep and      *)
(* x.pkt_buf (the segments linked so far) with x.lens (their data_len).    *)
(* x.freed (the mbufs freed by the call) and x.log (what each completion   *)
(* led to) are kept for the properties. An mbuf taken from the mempool has *)
(* next = NULL, so a chain of segments ends with the last one linked.      *)
(***************************************************************************)
RxMbufs == 1..(RxEltsN * MLX4_PMD_SGE_WR_N + RxSpare)

\* rxq_alloc_elts_sp(): element i holds MLX4_PMD_SGE_WR_N fresh mbufs, its
\* SGEs point to them and wr_id is i.
rxq_alloc_elts_sp(n) ==
    [i \in 0..(n - 1) |->
        [wr_id |-> i,
         bufs |-> [j \in SGE |-> i * MLX4_PMD_SGE_WR_N + j],
         sge |-> [j \in SGE |-> i * MLX4_PMD_SGE_WR_N + j]]]

\* rxq_alloc_elts(): element i has one SGE pointing to a fresh mbuf, which
\* is stored as wr_id.
rxq_alloc_elts(n) ==
    [i \in 0..(n - 1) |-> [wr_id |-> i + 1, bufs |-> <<>>, sge |-> <<i + 1>>]]

\* seg_tailroom of the mbuf in segment j (from 1) of an element: "The first
\* SGE keeps its headroom", "Subsequent SGEs lose theirs"; this is also
\* sge->length. An element that is not scattered has the first SGE only.
SegRoom(j) == IF j = 1 THEN RxBufLen - RTE_PKTMBUF_HEADROOM ELSE RxBufLen

RECURSIVE WrRoom(_)
\* The bytes the first n SGEs of a work request can take.
WrRoom(n) == IF n = 0 THEN 0 ELSE WrRoom(n - 1) + SegRoom(n)

\* mlx4_rx_burst_sp() with "seg->data_len = len" of the last segment
\* replaced by the tailroom.
SegDataLenFull(len, room) == room

\* data_len of a segment with tailroom room when len bytes of the packet
\* are left: "Last segment" takes len, any other one its tailroom.
SegDataLen(len, room) == IF len <= room THEN len ELSE room

\* The work request as ibv_post_recv() copies it from element e.
RqEntry(e) == [wr_id |-> e.wr_id, sge |-> e.sge]

\* rxq_setup(): the elements are allocated (scattered or not) and posted.
rxq_setup(sp, n) ==
    [sp |-> sp, elts_n |-> n,
     elts |-> IF sp THEN rxq_alloc_elts_sp(n) ELSE rxq_alloc_elts(n),
     stats |-> [ipackets |-> 0, ibytes |-> 0, idropped |-> 0, rx_nombuf |-> 0]]

\* The mbufs the elements of q point to.
RxHeld(q) ==
    IF q.sp
    THEN {q.elts[i].bufs[j] : i \in 0..(q.elts_n - 1), j \in SGE}
    ELSE {q.elts[i].wr_id : i \in 0..(q.elts_n - 1)}

\* rte_pktmbuf_free_seg() on an mbuf of rxq->mp.
RxFreeSeg(x, b) ==
    IF x.mb.own[b] = "ring"
    THEN [x EXCEPT !.mb.own[b] = "pool", !.freed = Append(@, b)]
    ELSE IF x.mb.own[b] = "pool"
    THEN [x EXCEPT !.mb.twice = TRUE, !.freed = Append(@, b)]
    ELSE [x EXCEPT !.mb.stolen = TRUE, !.freed = Append(@, b)]

RECURSIVE RxFreeChain(_, _)
\* rte_pktmbuf_free() on the segments linked so far.
RxFreeChain(x, segs) ==
    IF segs = <<>> THEN x
    ELSE RxFreeChain(RxFreeSeg(x, Head(segs)), Tail(segs))

\* The mbuf the mempool hands out: the lowest-numbered one it holds.
PoolNext(own) ==
    IF \E b \in DOMAIN own : own[b] = "pool"
    THEN CHOOSE b \in DOMAIN own : own[b] = "pool" /\ \A c \in 1..(b - 1) : own[c] # "pool"
    ELSE NULLBUF

\* __rte_mbuf_raw_alloc(rxq->mp), the result left in x.rep. failFrom: the
\* allocations of this call fail from that one on (0: while mbufs last).
rte_mbuf_raw_alloc(x, failFrom) ==
    IF PoolNext(x.mb.own) = NULLBUF \/ (failFrom > 0 /\ x.nalloc + 1 >= failFrom)
    THEN [x EXCEPT !.rep = NULLBUF, !.nalloc = @ + 1]
    ELSE [x EXCEPT !.rep = PoolNext(x.mb.own), !.nalloc = @ + 1,
                   !.mb.own[PoolNext(x.mb.own)] = "ring"]

\* The mempool once the caller has been given the segments segs.
GiveToCaller(mb, segs) ==
    [mb EXCEPT !.own = [b \in DOMAIN @ |->
                            IF \E y \in 1..Len(segs) : segs[y] = b THEN "caller" ELSE @[b]],
               !.dup = @ \/ \E y \in 1..Len(segs) : mb.own[segs[y]] = "caller"]

\* "Return packet": *(pkts++) = pkt_buf; ++ret; stats.ibytes += byte_len;
RxReturnPkt(x, byte_len) ==
    [x EXCEPT !.pkts = Append(@, [segs |-> x.pkt_buf, lens |-> x.lens,
                                  nb_segs |-> Len(x.pkt_buf), pkt_len |-> byte_len]),
              !.ret = @ + 1,
              !.q.stats.ibytes = @ + byte_len,
              !.mb = GiveToCaller(@, x.pkt_buf)]

RECURSIVE RxSpSegs(_, _, _, _, _)
RECURSIVE RxSpSeg(_, _, _, _, _)
\* The while (1) loop of mlx4_rx_burst_sp(): "Replace spent segments with
\* new ones, concatenate and return them as pkt_buf". j is the segment
\* index (from 1), len what is left of byte_len.
RxSpSegs(x, wc, j, len, failFrom) ==
    RxSpSeg(rte_mbuf_raw_alloc(x, failFrom), wc, j, len, failFrom)

\* The body of that loop once the replacement has been asked for.
RxSpSeg(x, wc, j, len, failFrom) ==
    IF x.rep = NULLBUF
    THEN [RxFreeChain(x, x.pkt_buf) EXCEPT !.q.stats.rx_nombuf = @ + 1,
                                           !.data.rx_mbuf_alloc_failed = @ + 1]
    ELSE IF len <= SegRoom(j)
    THEN RxReturnPkt([x EXCEPT !.q.elts[wc.wr_id].sge[j] = x.rep,
                               !.q.elts[wc.wr_id].bufs[j] = x.rep,
                               !.pkt_buf = Append(@, x.q.elts[wc.wr_id].bufs[j]),
                               !.lens = Append(@, SegDataLen(len, SegRoom(j)))],
                     wc.byte_len)
    ELSE RxSpSegs([x EXCEPT !.q.elts[wc.wr_id].sge[j] = x.rep,
                            !.q.elts[wc.wr_id].bufs[j] = x.rep,
                            !.pkt_buf = Append(@, x.q.elts[wc.wr_id].bufs[j]),
                            !.lens = Append(@, SegDataLen(len, SegRoom(j)))],
                  wc, j + 1, len - SegRoom(j), failFrom)

\* One iteration of "For each work completion" in mlx4_rx_burst_sp(): the
\* element is elts[wr_id].
RxSpOne(x, wc, failFrom) ==
    IF wc.status # "success"
    THEN [x EXCEPT !.chain = Append(@, wc.wr_id), !.q.stats.idropped = @ + 1]
    ELSE RxSpSegs([x EXCEPT !.chain = Append(@, wc.wr_id), !.pkt_buf = <<>>,
                            !.lens = <<>>],
                  wc, 1, wc.byte_len, failFrom)

\* mlx4_rx_burst() once the replacement has been asked for: the element is
\* elts[i], the segment returned is the mbuf wr_id names.
RxSeg(x, wc, i) ==
    IF x.rep = NULLBUF
    THEN [x EXCEPT !.q.stats.rx_nombuf = @ + 1, !.data.rx_mbuf_alloc_failed = @ + 1]
    ELSE RxReturnPkt([x EXCEPT !.q.elts[i].sge = <<x.rep>>,
                               !.q.elts[i].wr_id = x.rep,
                               !.pkt_buf = <<wc.wr_id>>,
                               !.lens = <<wc.byte_len>>],
                     wc.byte_len)

\* One iteration of "For each work completion" in mlx4_rx_burst(): i is the
\* index of the completion in wcs[].
RxOne(x, wc, i, failFrom) ==
    IF wc.status # "success"
    THEN [x EXCEPT !.chain = Append(@, i), !.q.stats.idropped = @ + 1]
    ELSE RxSeg(rte_mbuf_raw_alloc([x EXCEPT !.chain = Append(@, i)], failFrom), wc, i)

\* What the iteration that took the machine from x0 to x1 did for the
\* completion wc (ghost): the mbufs asked for, the packets returned, the
\* counters, the mbufs freed, and the work request linked for repost as
\* ibv_post_recv() will find it.
RxLogged(x0, x1, wc) ==
    [x1 EXCEPT !.log = Append(@,
        [wc |-> wc,
         nalloc |-> x1.nalloc - x0.nalloc,
         failed |-> x1.rep = NULLBUF /\ x1.nalloc > x0.nalloc,
         ret |-> x1.ret - x0.ret,
         idropped |-> x1.q.stats.idropped - x0.q.stats.idropped,
         rx_nombuf |-> x1.q.stats.rx_nombuf - x0.q.stats.rx_nombuf,
         freed |-> SubSeq(x1.freed, Len(x0.freed) + 1, Len(x1.freed)),
         pkt |-> IF x1.ret > x0.ret THEN x1.pkts[Len(x1.pkts)]
                 ELSE [segs |-> <<>>, lens |-> <<>>, nb_segs |-> 0, pkt_len |-> 0],
         wr |-> RqEntry(x1.q.elts[x1.chain[Len(x1.chain)]])])]

RECURSIVE RxLoop(_, _, _, _)
\* The for loop over the polled completions, from completion i on.
RxLoop(x, wcs, i, failFrom) ==
    IF i = Len(wcs) THEN x
    ELSE RxLoop(RxLogged(x,
                         IF x.q.sp THEN RxSpOne(x, wcs[i + 1], failFrom)
                         ELSE RxOne(x, wcs[i + 1], i, failFrom),
                         wcs[i + 1]),
                wcs, i + 1, failFrom)

\* mlx4_rx_burst[_sp]() without the call of ibv_post_recv().
RxRepostNone(x, postErr) ==
    IF postErr THEN [x EXCEPT !.fault = "abort"]
    ELSE [x EXCEPT !.q.stats.ipackets = @ + x.ret]

\* "Repost WRs": ibv_post_recv(rxq->qp, head.next, &bad_wr); a failure is
\* fatal (abort()). Then stats.ipackets += ret.
RxRepost(x, postErr) ==
    IF postErr THEN [x EXCEPT !.fault = "abort"]
    ELSE [x EXCEPT !.rq.wrs = @ \o [c \in 1..Len(x.chain) |-> RqEntry(x.q.elts[x.chain[c]])],
                   !.q.stats.ipackets = @ + x.ret]

\* mlx4_rx_burst[_sp]() with a for loop that ends after the first of the
\* polled completions.
RxBodyFirstOnly(x, pkts_n, pollErr, failFrom, postErr) ==
    IF pollErr THEN [x EXCEPT !.wcs_n = -1, !.ret = UINT_HALF - 1]
    ELSE IF Min(Len(x.cq), pkts_n) = 0 THEN x
    ELSE RxRepost(RxLoop([x EXCEPT !.wcs_n = Min(Len(x.cq), pkts_n),
                                   !.cq = SubSeq(@, Min(Len(x.cq), pkts_n) + 1, Len(@))],
                         SubSeq(x.cq, 1, 1), 0, failFrom),
                  postErr)

\* mlx4_rx_burst_sp() and mlx4_rx_burst() from ibv_poll_cq() on. pollErr:
\* ibv_poll_cq() fails and the function returns -1 as uint16_t.
RxBody(x, pkts_n, pollErr, failFrom, postErr) ==
    IF pollErr THEN [x EXCEPT !.wcs_n = -1, !.ret = UINT_HALF - 1]
    ELSE IF Min(Len(x.cq), pkts_n) = 0 THEN x
    ELSE RxRepost(RxLoop([x EXCEPT !.wcs_n = Min(Len(x.cq), pkts_n),
                                   !.cq = SubSeq(@, Min(Len(x.cq), pkts_n) + 1, Len(@))],
                         SubSeq(x.cq, 1, Min(Len(x.cq), pkts_n)), 0, failFrom),
                  postErr)

\* mlx4_rx_burst(): a scattered queue is handed to mlx4_rx_burst_sp().
mlx4_rx_burst(x, pkts_n, pollErr, failFrom, postErr) ==
    RxBody(x, pkts_n, pollErr, failFrom, postErr)

\* mlx4_rx_burst_sp(): a queue that is not scattered is handed to
\* mlx4_rx_burst(); without elements the function returns 0.
mlx4_rx_burst_sp(x, pkts_n, pollErr, failFrom, postErr) ==
    IF ~x.q.sp THEN mlx4_rx_burst(x, pkts_n, pollErr, failFrom, postErr)
    ELSE IF x.q.elts_n = 0 THEN x
    ELSE RxBody(x, pkts_n, pollErr, failFrom, postErr)

RECURSIVE rxq_free_elts_sp(_, _, _)
\* rxq_free_elts_sp(): every non-NULL bufs[j] of every element is freed.
rxq_free_elts_sp(x, i, j) ==
    IF i = x.q.elts_n THEN x
    ELSE IF j > MLX4_PMD_SGE_WR_N THEN rxq_free_elts_sp(x, i + 1, 1)
    ELSE IF x.q.elts[i].bufs[j] = NULLBUF THEN rxq_free_elts_sp(x, i, j + 1)
    ELSE rxq_free_elts_sp(RxFreeSeg(x, x.q.elts[i].bufs[j]), i, j + 1)

RECURSIVE rxq_free_elts(_, _)
\* rxq_free_elts(): the mbuf every element names in wr_id is freed.
rxq_free_elts(x, i) ==
    IF i = x.q.elts_n THEN x
    ELSE IF x.q.elts[i].wr_id = NULLBUF THEN rxq_free_elts(x, i + 1)
    ELSE rxq_free_elts(RxFreeSeg(x, x.q.elts[i].wr_id), i + 1)

\* rxq_cleanup(): the elements are freed, the queue pair and the completion
\* queue destroyed, the structure zeroed.
rxq_cleanup(x) ==
    [(IF x.q.sp THEN rxq_free_elts_sp(x, 0, 1) ELSE rxq_free_elts(x, 0))
        EXCEPT !.q = rxq_setup(FALSE, 0), !.rq.wrs = <<>>, !.cq = <<>>]

(***************************************************************************)
(* The RX ring as a state machine.                                         *)
(***************************************************************************)
RxMachine ==
    [q |-> rxq, mb |-> rmbuf, rq |-> rq, cq |-> rcq, fault |-> fault, data |-> dev,
     wcs_n |-> 0, ret |-> 0, pkts |-> <<>>, chain |-> <<>>, nalloc |-> 0,
     rep |-> NULLBUF, pkt_buf |-> <<>>, lens |-> <<>>, freed |-> <<>>,
     log |-> <<>>]

\* The mempool after rxq_setup(): the ring holds the mbufs it was filled with.
InitPool(q) ==
    [own |-> [b \in RxMbufs |-> IF b \in RxHeld(q) THEN "ring" ELSE "pool"],
     twice |-> FALSE, stolen |-> FALSE, dup |-> FALSE]

\* The elements of a ring set up for RxEltsN * MLX4_PMD_SGE_WR_N descriptors:
\* "desc /= MLX4_PMD_SGE_WR_N" when the queue is scattered.
RxElts(sp) == IF sp THEN RxEltsN ELSE RxEltsN * MLX4_PMD_SGE_WR_N

InitRx ==
    /\ \E sp \in BOOLEAN :
        /\ rxq = rxq_setup(sp, RxElts(sp))
        /\ rmbuf = InitPool(rxq_setup(sp, RxElts(sp)))
        /\ rq = [wrs |-> [c \in 1..RxElts(sp) |-> RqEntry(rxq_setup(sp, RxElts(sp)).elts[c - 1])],
                 consumed |-> 0]
    /\ rcq = <<>>
    /\ rcall = NoCall
    /\ fault = "none"
    /\ txq = Unused /\ tally = Unused /\ submitted = Unused /\ sq = Unused
    /\ cq = Unused /\ mrs = Unused /\ call = Unused
    /\ dev = [rx_mbuf_alloc_failed |-> 0]

\* The effect on the variables of a call that took the machine to x; dev is
\* dev->data, shared by the queues of the port.
RxBurstDone(x) ==
    IF x.fault # "none"
    THEN /\ fault' = x.fault
         /\ rcall' = [op |-> "fault"]
         /\ UNCHANGED <<rxq, rmbuf, rq, rcq, dev>>
    ELSE /\ rxq' = x.q
         /\ rmbuf' = x.mb
         /\ dev' = x.data
         /\ rq' = x.rq
         /\ rcq' = x.cq
         /\ fault' = x.fault
         /\ rcall' = [op |-> "rx_burst", sp |-> rxq.sp, wcs_n |-> x.wcs_n, ret |-> x.ret,
                       pkts |-> x.pkts, log |-> x.log]

\* The application calls the receive function of the queue.
RxBurst ==
    /\ fault = "none"
    /\ rxq.elts_n > 0
    /\ \E pkts_n \in 0..Min(MaxRxBurst, rxq.elts_n), pollErr \in BOOLEAN,
          failFrom \in 0..(MaxRxBurst * MaxRxLen), postErr \in BOOLEAN :
            RxBurstDone(mlx4_rx_burst_sp(RxMachine, pkts_n, pollErr, failFrom, postErr))
    /\ UNCHANGED txvars

\* The adapter consumes the oldest posted receive work request: a packet
\* has been written to its SGEs, or the completion reports an error.
HwRecv ==
    /\ fault = "none"
    /\ rq.wrs # <<>>
    /\ rq.consumed < MaxReceived
    /\ rq' = [wrs |-> Tail(rq.wrs), consumed |-> rq.consumed + 1]
    /\ \/ \E len \in 0..Min(MaxRxLen, WrRoom(Len(Head(rq.wrs).sge))) :
            rcq' = Append(rcq, [wr_id |-> Head(rq.wrs).wr_id, status |-> "success",
                                byte_len |-> len, sge |-> Head(rq.wrs).sge])
       \/ rcq' = Append(rcq, [wr_id |-> Head(rq.wrs).wr_id, status |-> "error",
                              byte_len |-> 0, sge |-> Head(rq.wrs).sge])
    /\ rcall' = [op |-> "hw"]
    /\ UNCHANGED <<rxq, rmbuf, fault>>
    /\ UNCHANGED <<txvars, dev>>

\* The application frees the packets it was given.
AppFree ==
    /\ fault = "none"
    /\ \E b \in RxMbufs : rmbuf.own[b] = "caller"
    /\ rmbuf' = [rmbuf EXCEPT !.own = [b \in RxMbufs |->
                                          IF @[b] = "caller" THEN "pool" ELSE @[b]]]
    /\ rcall' = [op |-> "free"]
    /\ UNCHANGED <<rxq, rq, rcq, fault>>
    /\ UNCHANGED <<txvars, dev>>

\* The effect on the variables of rxq_cleanup() taking the machine to x.
RxCleanupDone(x) ==
    /\ rxq' = x.q
    /\ rmbuf' = x.mb
    /\ rq' = x.rq
    /\ rcq' = x.cq
    /\ rcall' = [op |-> "cleanup"]

\* The queue is released: rxq_cleanup().
RxCleanup ==
    /\ fault = "none"
    /\ rxq.elts_n > 0
    /\ RxCleanupDone(rxq_cleanup(RxMachine))
    /\ UNCHANGED fault
    /\ UNCHANGED <<txvars, dev>>

NextRx == RxBurst \/ HwRecv \/ AppFree \/ RxCleanup

SpecRx == InitRx /\ [][NextRx]_vars

(***************************************************************************)
(* Properties of the TX ring.                                              *)
(***************************************************************************)
\* a <= b for unsigned int a and b.
ULe(a, b) == IF (a < 0) = (b < 0) THEN a <= b ELSE b < 0

\* The mbuf pointers held by the ring that are in state st.
HeldIn(st) ==
    {sj \in Slots(txq) \X SGE : txq.elts_buf[sj[1]].bufs[sj[2]].st = st}

\* C1: in every state reached through calls of mlx4_tx_burst() (and the
\* txq_complete() it starts with), elts_used + elts_free = elts_n and both
\* counters lie in 0..elts_n.
C1_UsedPlusFree ==
    /\ txq.elts_used + txq.elts_free = txq.elts_n
    /\ txq.elts_used \in 0..txq.elts_n
    /\ txq.elts_free \in 0..txq.elts_n

\* C2: between calls, elts_comp <= elts_used (as unsigned int).
C2_CompLeUsed == ULe(txq.elts_comp, txq.elts_used)

\* C3: every mbuf of a packet reported sent is freed exactly once by the
\* ring (those not freed yet are exactly the ones the ring still points to,
\* none once the ring is torn down), no mbuf is freed twice, no mbuf left
\* with the caller or freed as dropped is freed by the ring, and no slot
\* points to a freed mbuf.
C3_BufferOwnership ==
    /\ tally.owed = Cardinality(HeldIn("tx"))
    /\ ~tally.twice
    /\ ~tally.stolen
    /\ HeldIn("dropped") = {}

\* C6: when mlx4_post_send() rejects a work request after taking k of the m
\* chained ones (0 <= k < m), the call leaves elts_used k higher and
\* elts_free k lower than txq_complete() left them, elts_comp unchanged, and
\* returns k.
C6_PostFailureCounters ==
    (call.op = "tx_burst" /\ call.err) =>
        /\ txq.elts_used = call.mid.elts_used + call.k
        /\ txq.elts_free = call.mid.elts_free - call.k
        /\ txq.elts_comp = call.mid.elts_comp
        /\ call.ret = call.k

\* The elements of a sequence, last first.
Reverse(seq) == [x \in 1..Len(seq) |-> seq[Len(seq) + 1 - x]]

\* The set of elements of a sequence.
Range(seq) == {seq[x] : x \in 1..Len(seq)}

\* C7 (as stated): after a post failure that took k of the m chained work
\* requests, exactly the m - k elements of the unsent tail have been added
\* to txq->lost_comp.
C7_UnsentTailLost ==
    (call.op = "tx_burst" /\ call.err) =>
        /\ Len(Lost(txq)) = Len(call.mid.lost) + (Len(call.chain) - call.k)
        /\ Range(Lost(txq)) =
                Range(call.mid.lost)
                    \cup {call.chain[x] : x \in (call.k + 1)..Len(call.chain)}

\* C7 (amended): after a post failure that took k of the m chained work
\* requests, the k accepted elements, and no element of the unsent tail,
\* have been linked in front of txq->lost_comp: lost_comp points to the last
\* accepted element, comp of each accepted element to the one accepted
\* before it, comp of the first to the previous head of the list. With
\* k = 0 the head of the list is left as it was.
C7_AcceptedLost ==
    (call.op = "tx_burst" /\ call.err) =>
        IF call.k = 0
        THEN txq.lost_comp = IF call.mid.lost = <<>> THEN NOELT ELSE Head(call.mid.lost)
        ELSE /\ txq.lost_comp = call.chain[call.k]
             /\ \A x \in 2..call.k :
                    txq.elts_buf[call.chain[x]].comp = call.chain[x - 1]
             /\ txq.elts_buf[call.chain[1]].comp =
                    IF call.mid.lost = <<>> THEN NOELT ELSE Head(call.mid.lost)

\* C7 witness: a post failure that took some but not all of the chained
\* work requests while txq->lost_comp already held an element.
C7_Witness ==
    /\ call.op = "tx_burst" /\ call.err
    /\ call.k >= 1
    /\ call.mid.lost # <<>>
    /\ Len(Lost(txq)) = Len(call.mid.lost) + call.k

\* C8: when txq_complete() polls at least one completion while
\* txq->lost_comp is not empty, the list is empty afterwards, its elements
\* were reclaimed once each, in list order and before any element named by
\* a completion, with one --elts_used and one ++elts_free each, and every
\* mbuf freed for them was one the ring owed a free.
C8_LostDrained ==
    (call.op = "tx_burst" /\ call.wcs_n > 0 /\ call.entry.lost # <<>>) =>
        /\ call.mid.lost = <<>>
        /\ call.drain.reclaimed = call.entry.lost
        /\ SubSeq(call.reclaimed, 1, Len(call.entry.lost)) = call.entry.lost
        /\ call.drain.used = call.entry.elts_used - Len(call.entry.lost)
        /\ call.drain.free = call.entry.elts_free + Len(call.entry.lost)
        /\ call.drain.nbad = 0

\* C9: the value mlx4_tx_burst() returns is the number of packets of the
\* call that the adapter accepted.
C9_ReturnsAccepted ==
    call.op = "tx_burst" => call.ret = call.naccepted

\* C10: every packet dropped by mlx4_tx_burst() (no memory region, or more
\* than MLX4_PMD_SGE_WR_N segments) has each of its mbufs freed once and is
\* counted once in stats.odropped, and when the post succeeds every other
\* packet of the burst that found a free element is accepted by the adapter.
C10_DropAccounting ==
    call.op = "tx_burst" =>
        /\ call.ndropfree = call.ndropsegs
        /\ ~tally.twice
        /\ txq.stats.odropped - call.mid.odropped = call.ndropped
        /\ (~call.err => call.naccepted = call.max - call.ndropped)

(***************************************************************************)
(* Properties of the RX ring.                                              *)
(***************************************************************************)
\* The mbufs the SGEs of the posted receive work requests point to, one
\* entry per SGE.
RxPosted ==
    [c \in {<<w, j>> \in (1..Len(rq.wrs)) \X SGE : j <= Len(rq.wrs[w].sge)} |->
        rq.wrs[c[1]].sge[c[2]]]

\* C4: an mbuf given to the caller is pointed to by no element and no posted
\* work request, no mbuf is posted in two work requests (or SGEs) at once,
\* every posted mbuf is pointed to by an element, and rxq_cleanup() frees
\* the mbufs the ring owns and no other.
C4_RxSingleOwner ==
    /\ \A b \in RxMbufs :
        rmbuf.own[b] = "caller" =>
            /\ b \notin RxHeld(rxq)
            /\ \A c \in DOMAIN RxPosted : RxPosted[c] # b
    /\ \A c, d \in DOMAIN RxPosted : c # d => RxPosted[c] # RxPosted[d]
    /\ \A c \in DOMAIN RxPosted : RxPosted[c] \in RxHeld(rxq)
    /\ ~rmbuf.twice /\ ~rmbuf.stolen /\ ~rmbuf.dup
    /\ (rxq.elts_n = 0 => \A b \in RxMbufs : rmbuf.own[b] # "ring")

\* C5: while the ring is live, every bufs[] entry of every element (wr_id
\* for a queue that is not scattered) points to an mbuf the ring holds:
\* never NULL, never an mbuf given to the caller or back in the mempool.
C5_RxSlotsValid ==
    \A b \in RxHeld(rxq) : b # NULLBUF /\ rmbuf.own[b] = "ring"

\* The entries of the log of the last call of the receive function.
RxLog == IF rcall.op = "rx_burst" THEN {rcall.log[c] : c \in 1..Len(rcall.log)} ELSE {}

\* C11: for a completion with an error status, on either path, the receive
\* function returns no packet, adds 1 to stats.idropped, asks the mempool
\* for nothing, and reposts the work request that completed with the mbufs
\* it held.
C11_ErrorCompletion ==
    \A e \in RxLog :
        e.wc.status = "error" =>
            /\ e.ret = 0
            /\ e.idropped = 1
            /\ e.nalloc = 0
            /\ e.freed = <<>>
            /\ e.wr.wr_id = e.wc.wr_id
            /\ e.wr.sge = e.wc.sge

\* C12: when __rte_mbuf_raw_alloc() fails for a segment of a successful
\* completion, no packet is returned for it, the segments already detached
\* are freed once each and nothing else is, stats.rx_nombuf grows by 1, the
\* work request that completed is reposted with every SGE on an mbuf the
\* ring holds, and every polled completion of the call is processed.
C12_AllocFailure ==
    \A e \in RxLog :
        e.failed =>
            /\ e.ret = 0
            /\ e.rx_nombuf = 1
            /\ e.freed = SubSeq(e.wc.sge, 1, e.nalloc - 1)
            /\ e.wr.wr_id = e.wc.wr_id
            /\ \A j \in 1..Len(e.wr.sge) :
                    e.wr.sge[j] # NULLBUF /\ rmbuf.own[e.wr.sge[j]] = "ring"
            /\ Len(rcall.log) = rcall.wcs_n

\* The smallest n >= 1 such that the first n segments of a scattered
\* element take len bytes.
NeedSegs(len) ==
    CHOOSE n \in SGE : WrRoom(n) >= len /\ \A k \in 1..(n - 1) : WrRoom(k) < len

\* C13: for a successful completion of byte_len L on a scattered queue (and
\* replacements at hand), mlx4_rx_burst_sp() returns one packet with
\* pkt_len = L made of the first n segments of the element, n = NeedSegs(L)
\* = nb_segs; each segment but the last carries its tailroom, the last one
\* the remainder.
C13_ScatteredReassembly ==
    \A e \in RxLog :
        (rcall.sp /\ e.wc.status = "success" /\ ~e.failed) =>
            /\ e.ret = 1
            /\ e.pkt.pkt_len = e.wc.byte_len
            /\ e.pkt.nb_segs = NeedSegs(e.wc.byte_len)
            /\ e.pkt.segs = SubSeq(e.wc.sge, 1, NeedSegs(e.wc.byte_len))
            /\ Len(e.pkt.lens) = NeedSegs(e.wc.byte_len)
            /\ \A j \in 1..(NeedSegs(e.wc.byte_len) - 1) : e.pkt.lens[j] = SegRoom(j)
            /\ e.pkt.lens[NeedSegs(e.wc.byte_len)] =
                    e.wc.byte_len - WrRoom(NeedSegs(e.wc.byte_len) - 1)

\* C13 witness: a scattered packet of several segments whose last segment
\* is not full has been returned.
C13_Witness ==
    \E e \in RxLog :
        /\ rcall.sp /\ e.ret = 1
        /\ e.pkt.nb_segs >= 2
        /\ e.pkt.lens[e.pkt.nb_segs] < SegRoom(e.pkt.nb_segs)
        /\ e.pkt.lens[e.pkt.nb_segs] > 0

(***************************************************************************)
(* Properties of the memory region cache.                                  *)
(***************************************************************************)
\* The last call of txq_mp2mr() found the mempool in the table.
MrHit == call.op = "mp2mr" /\ \E i \in 1..Len(call.table) : call.table[i].mp = call.mp

\* The last call of txq_mp2mr() registered a region for a mempool that was
\* not in the table.
MrMiss == call.op = "mp2mr" /\ ~MrHit /\ call.lkey # BAD_LKEY

\* The mempools of a table, in table order.
MrPoolsOf(tbl) == [i \in 1..Len(tbl) |-> tbl[i].mp]

\* C14: on a miss with the table full, entry 0 is evicted and its memory
\* region is the one deregistered, the other entries move down one place in
\* order with their regions still registered, and the new entry is last.
C14_EvictOldest ==
    (MrMiss /\ Len(call.table) = MLX4_PMD_TX_MP_CACHE) =>
        /\ SubSeq(txq.mp2mr, 1, MLX4_PMD_TX_MP_CACHE - 1) = Tail(call.table)
        /\ txq.mp2mr[MLX4_PMD_TX_MP_CACHE].mp = call.mp
        /\ call.reg \ mrs.reg = {call.table[1].mr}
        /\ \A i \in 1..MLX4_PMD_TX_MP_CACHE : txq.mp2mr[i].mr \in mrs.reg

\* C15: the table is first in, first out. A miss on a full table removes
\* the mempool at index 0 and no other and puts the new one last; a hit
\* changes nothing; a mempool that is not in the table (never seen, or
\* evicted) is resolved through a new registration.
C15_EvictionFifo ==
    /\ (MrMiss /\ Len(call.table) = MLX4_PMD_TX_MP_CACHE) =>
            MrPoolsOf(txq.mp2mr) = Tail(MrPoolsOf(call.table)) \o <<call.mp>>
    /\ (MrMiss /\ Len(call.table) < MLX4_PMD_TX_MP_CACHE) =>
            MrPoolsOf(txq.mp2mr) = MrPoolsOf(call.table) \o <<call.mp>>
    /\ MrHit => (txq.mp2mr = call.table /\ mrs.n = call.n /\ mrs.reg = call.reg)
    /\ MrMiss => (mrs.n = call.n + 1 /\ call.lkey = mrs.n /\ mrs.n \in mrs.reg)

\* C15 witness: the first mempool inserted was evicted by the one that came
\* after the table was full, and has just been resolved again through a new
\* registration.
C15_Witness ==
    /\ MrMiss
    /\ call.mp = 1
    /\ MrPoolsOf(call.table) = [i \in 1..MLX4_PMD_TX_MP_CACHE |-> i + 1]
    /\ call.lkey = MLX4_PMD_TX_MP_CACHE + 2

\* C16: a failure of ibv_reg_mr() in txq_mp2mr() yields (uint32_t)-1 and
\* leaves the table and the registered regions as they were; in
\* mlx4_tx_burst() it costs the packet of that segment only: the process is
\* not stopped, and the other packets of the burst that found an element
\* are accepted by the adapter.
C16_RegFailureNotFatal ==
    /\ fault = "none"
    /\ (call.op = "mp2mr" /\ call.lkey = BAD_LKEY) =>
            (txq.mp2mr = call.table /\ mrs.reg = call.reg /\ mrs.n = call.n)
    /\ call.op = "tx_burst" =>
            /\ call.ndropfree = call.ndropsegs
            /\ call.naccepted = call.max - call.ndropped

\* C17: a call of mlx4_tx_burst() goes through at most min(elts_free, pkts_n)
\* packets, elts_free being the value txq_complete() leaves; when that value
\* is 0 the call returns 0 at once: nothing is posted and the ring is as
\* txq_complete() left it.
C17_BurstBounded ==
    [][call'.op = "tx_burst" =>
            /\ call'.max <= call'.pkts_n
            /\ ULe(call'.max, call'.mid.elts_free)
            /\ call'.ret <= call'.max
            /\ call'.ndropped + call'.naccepted <= call'.max
            /\ call'.mid.elts_free = 0 =>
                    /\ call'.ret = 0
                    /\ ~call'.posted
                    /\ sq' = sq
                    /\ txq' \in {txq_complete(Machine, pollErr).q : pollErr \in BOOLEAN}]_vars

\* A call with packets to send finds no free element.
C17_Witness ==
    /\ call.op = "tx_burst"
    /\ call.pkts_n > 0
    /\ call.mid.elts_free = 0
    /\ call.ret = 0

(***************************************************************************)
(* Queue setup and MTU change.                                             *)
(*                                                                         *)
(* The device has one RX and one TX queue index and no RSS. dev.qs[k] is   *)
(* the entry of the index (the element of priv->rxqs, which is             *)
(* dev->data->rx_queues), dev.q[k] the structure it points to,             *)
(* dev.tmpl the template of rxq_setup()/txq_setup(), dev.burst[k] the      *)
(* callback dev->rx_pkt_burst / dev->tx_pkt_burst. Verbs objects and       *)
(* rte_calloc()ed arrays are entries of dev.res, which counts how many     *)
(* times each was released; dev.own says where each mbuf of the pool is.   *)
(* A control operation holds priv_lock() and runs one step at a time       *)
(* (dev.pc); the burst callbacks take no lock and are called through the   *)
(* callback with the entry of the index at any step. No traffic flows.     *)
(***************************************************************************)
\* The number of control operations started.
MaxCtlOps == 3

\* The descriptors asked for: a multiple of MLX4_PMD_SGE_WR_N.
Desc == MLX4_PMD_SGE_WR_N

\* The descriptor counts a caller of queue setup passes.
DescChoices == {0, 2, Desc}

EOVERFLOW == 75

ENOMEM == 12
EEXIST == 17
EINVAL == 22

\* A structure after rte_calloc_socket() or memset(.., 0, ..). elts is the
\* list of the mbufs of the elements (has_elts: the array pointer is not
\* NULL), arr the arrays, qp/cq/mr the objects (0: NULL); st, flows and
\* posted describe the queue pair.
QZero ==
    [sp |-> FALSE, elts_n |-> 0, elts |-> <<>>, has_elts |-> FALSE, arr |-> <<>>,
     qp |-> 0, cq |-> 0, mr |-> 0, st |-> "RESET", flows |-> FALSE, posted |-> FALSE]

\* ibv_create_cq(), ibv_create_qp(), ibv_reg_mr(), rte_calloc_socket(): the
\* new object is the last entry of d.res.
Acquire(d, kind, k) == [d EXCEPT !.res = Append(@, [kind |-> kind, k |-> k, rel |-> 0])]

\* ibv_destroy_cq(), ibv_destroy_qp(), ibv_dereg_mr(), rte_free().
Release(d, id) == [d EXCEPT !.res[id].rel = @ + 1]

RECURSIVE ReleaseAll(_, _)
ReleaseAll(d, ids) ==
    IF ids = <<>> THEN d ELSE ReleaseAll(Release(d, Head(ids)), Tail(ids))

\* Whether object id exists.
Live(d, id) == id # 0 /\ d.res[id].rel = 0

\* The mbufs in the mempool.
PoolFree(d) == {b \in DOMAIN d.own : d.own[b] = "pool"}

\* rte_pktmbuf_free_seg() during setup and cleanup.
CtlFreeSeg(d, b) ==
    IF d.own[b] = "ring" THEN [d EXCEPT !.own[b] = "pool"] ELSE [d EXCEPT !.twice = TRUE]

RECURSIVE CtlFreeSegs(_, _)
\* The error path of rxq_alloc_elts[_sp]() and rxq_free_elts[_sp](): every
\* mbuf the array names is freed.
CtlFreeSegs(d, bufs) ==
    IF bufs = <<>> THEN d ELSE CtlFreeSegs(CtlFreeSeg(d, Head(bufs)), Tail(bufs))

RECURSIVE CtlFill(_, _, _, _)
\* The loop of rxq_alloc_elts[_sp](): rte_pktmbuf_alloc() for each segment
\* until n are held; allocation number f fails, as does one from an empty
\* mempool. The mbufs taken are left in d.got.
CtlFill(d, bufs, n, f) ==
    IF Len(bufs) = n \/ Len(bufs) + 1 = f \/ PoolFree(d) = {}
    THEN [d EXCEPT !.got = bufs]
    ELSE CtlFill([d EXCEPT !.own[CHOOSE b \in PoolFree(d) : \A c \in PoolFree(d) : b <= c] = "ring"],
                 Append(bufs, CHOOSE b \in PoolFree(d) : \A c \in PoolFree(d) : b <= c), n, f)

\* The end of rxq_alloc_elts[_sp]() once the loop has left d.got: the array
\* is stored in the template, or "error:" frees the mbufs and the array.
RxAllocEnd(d, n) ==
    IF Len(d.got) = n
    THEN [d EXCEPT !.tmpl.elts = d.got, !.tmpl.has_elts = TRUE,
                   !.tmpl.elts_n = IF d.tmpl.sp THEN n \div MLX4_PMD_SGE_WR_N ELSE n,
                   !.tmpl.arr = <<Len(d.res)>>, !.got = <<>>]
    ELSE [Release(CtlFreeSegs(d, d.got), Len(d.res)) EXCEPT !.pc.ret = -ENOMEM, !.got = <<>>]

\* rxq_alloc_elts[_sp](&tmpl, desc); f = 0: rte_calloc_socket() fails.
RxAllocElts(d, n, f) ==
    IF f = 0 THEN [d EXCEPT !.pc.ret = -ENOMEM]
    ELSE RxAllocEnd(CtlFill(Acquire(d, "elts", "rx"), <<>>, n, f), n)

\* txq_alloc_elts(&tmpl, desc): f = 0: the array of work requests is not
\* allocated, f = 1: the array of buffers is not; the other one is freed.
TxAllocElts(d, n, f) ==
    IF f \in {0, 1}
    THEN [Release(Acquire(d, IF f = 0 THEN "elts_buf" ELSE "elts_wr", "tx"), Len(d.res) + 1)
            EXCEPT !.pc.ret = -ENOMEM]
    ELSE [Acquire(Acquire(d, "elts_wr", "tx"), "elts_buf", "tx")
            EXCEPT !.tmpl.has_elts = TRUE, !.tmpl.elts_n = n \div MLX4_PMD_SGE_WR_N,
                   !.tmpl.arr = <<Len(d.res) + 1, Len(d.res) + 2>>]

\* The steps of rxq_setup() and of txq_setup() that can fail, in order.
SetupSteps(k) ==
    IF k = "rx"
    THEN <<"desc", "mbuf", "reg_mr", "create_cq", "create_qp", "init", "mac",
           "alloc_elts", "post_recv", "rtr">>
    ELSE <<"desc", "create_cq", "create_qp", "init", "alloc_elts", "rtr", "rts">>

\* The ways a step can go: Desc + 1 is success; for alloc_elts the failure
\* is that of an allocation, for any other step 0 is its failure. The check
\* of desc depends on desc alone.
StepOutcomes(k, step) ==
    IF step = "desc" THEN {Desc + 1}
    ELSE IF step # "alloc_elts" THEN {0, Desc + 1}
    ELSE IF k = "rx" THEN 0..(Desc + 1)
    ELSE {0, 1, Desc + 1}

\* Where a failed step goes: "return -EINVAL" for the check of desc,
\* "return -ENOMEM" for the mbuf that gives the buffer length, "goto error"
\* for the others.
FailTargetReturn(step) == "return"

FailTarget(step) == IF step \in {"desc", "mbuf"} THEN "return" ELSE "cleanup"

\* One step of rxq_setup()/txq_setup() on the template; f as StepOutcomes.
\* A failure leaves the negative errno in d.pc.ret.
DoStep(d, k, step, f) ==
    IF step = "alloc_elts"
    THEN (IF k = "rx" THEN RxAllocElts(d, d.pc.desc, f) ELSE TxAllocElts(d, d.pc.desc, f))
    ELSE IF \/ f = 0
            \/ (step = "mbuf" /\ PoolFree(d) = {})
            \/ (step = "desc" /\ (d.pc.desc = 0 \/ d.pc.desc % MLX4_PMD_SGE_WR_N # 0))
    THEN [d EXCEPT !.pc.ret = IF step \in {"mbuf", "reg_mr", "create_cq"} THEN -ENOMEM ELSE -EINVAL]
    ELSE IF step = "desc" THEN d
    ELSE IF step = "mbuf" THEN [d EXCEPT !.tmpl.sp = d.jumbo]
    ELSE IF step = "reg_mr" THEN [Acquire(d, "mr", k) EXCEPT !.tmpl.mr = Len(d.res) + 1]
    ELSE IF step = "create_cq" THEN [Acquire(d, "cq", k) EXCEPT !.tmpl.cq = Len(d.res) + 1]
    ELSE IF step = "create_qp" THEN [Acquire(d, "qp", k) EXCEPT !.tmpl.qp = Len(d.res) + 1]
    ELSE IF step = "init" THEN [d EXCEPT !.tmpl.st = "INIT"]
    ELSE IF step = "mac" THEN [d EXCEPT !.tmpl.flows = TRUE]
    ELSE IF step = "post_recv" THEN [d EXCEPT !.tmpl.posted = TRUE]
    ELSE IF step = "rtr" THEN [d EXCEPT !.tmpl.st = "RTR"]
    ELSE [d EXCEPT !.tmpl.st = "RTS"]

\* After a step: the next step, the swap once the last step is done, or the
\* error path.
AfterStep(d, step, last) ==
    IF d.pc.ret # 0
    THEN [d EXCEPT !.pc.at = FailTarget(step), !.pc.tgt = "tmpl", !.pc.j = 1,
                   !.pc.then = "return", !.pc.step = step]
    ELSE IF last
    THEN [d EXCEPT !.pc.at = "cleanup", !.pc.tgt = "q", !.pc.j = 1, !.pc.then = "copy"]
    ELSE [d EXCEPT !.pc.i = @ + 1]

\* The structure a cleanup works on.
Tgt(d) == IF d.pc.tgt = "tmpl" THEN d.tmpl ELSE d.q[d.pc.k]

\* Step j of rxq_cleanup()/txq_cleanup() on structure s: 1 the elements
\* (rxq_free_elts[_sp](), txq_free_elts(): the pointers are cleared first),
\* 2 ibv_destroy_qp(), 3 ibv_destroy_cq(), 4 ibv_dereg_mr(), each if the
\* pointer is not NULL; the pointers to the objects stay until step 5.
CleanupRes(d, s, j) ==
    IF j = 1 THEN (IF s.has_elts THEN ReleaseAll(CtlFreeSegs(d, s.elts), s.arr) ELSE d)
    ELSE IF j = 2 THEN (IF s.qp # 0 THEN Release(d, s.qp) ELSE d)
    ELSE IF j = 3 THEN (IF s.cq # 0 THEN Release(d, s.cq) ELSE d)
    ELSE IF j = 4 THEN (IF s.mr # 0 THEN Release(d, s.mr) ELSE d)
    ELSE d

\* The structure after step j: 5 is memset().
CleanupStruct(s, j) ==
    IF j = 1 THEN [s EXCEPT !.elts_n = 0, !.elts = <<>>, !.has_elts = FALSE, !.arr = <<>>]
    ELSE IF j = 5 THEN QZero
    ELSE s

\* Stores s in the structure the cleanup works on and moves on.
CleanupStore(d, s, j) ==
    [d EXCEPT !.tmpl = IF d.pc.tgt = "tmpl" THEN s ELSE @,
              !.q[d.pc.k] = IF d.pc.tgt = "q" THEN s ELSE @,
              !.pc.j = IF j = 5 THEN 1 ELSE j + 1,
              !.pc.at = IF j = 5 THEN d.pc.then ELSE @]

\* The callback mlx4_dev_set_mtu() leaves to burst callers while it works.
MtuBurstKept(cb) == cb

MtuBurst(cb) == "removed_rx_burst"

\* Whether s is a ring ready for its burst function.
Complete(d, s, k) ==
    /\ s.has_elts
    /\ Live(d, s.qp) /\ Live(d, s.cq)
    /\ \A i \in 1..Len(s.arr) : Live(d, s.arr[i])
    /\ IF k = "rx"
       THEN /\ Live(d, s.mr) /\ s.st = "RTR" /\ s.posted
            /\ Len(s.elts) = Desc
            /\ \A i \in 1..Len(s.elts) : d.own[s.elts[i]] = "ring"
       ELSE s.st = "RTS"

\* Whether s holds nothing: zeroed, possibly with sp set.
Empty(s) == [s EXCEPT !.sp = FALSE] = QZero

\* What the return of rxq_setup()/txq_setup() leaves for the properties.
SetupRecord(d) ==
    [op |-> "setup", k |-> d.pc.k, caller |-> d.pc.caller, ret |-> d.pc.ret,
     step |-> d.pc.step, res0 |-> d.pc.res0, had |-> d.pc.had,
     desc |-> d.pc.desc, was |-> d.pc.was]

\* mlx4_rx_queue_setup()/mlx4_tx_queue_setup() after rxq_setup()/txq_setup():
\* rte_free() on failure, else the index and the callback are set.
SetupReturn(d, k) ==
    IF d.pc.ret # 0
    THEN [d EXCEPT !.mem[k] = "freed", !.q[k] = QZero, !.tmpl = QZero,
                   !.dead[k] = @ \/ d.pc.had,
                   !.last = SetupRecord(d), !.pc = [at |-> "idle"]]
    ELSE [d EXCEPT !.qs[k] = "q",
                   !.burst[k] = IF k = "tx" THEN "mlx4_tx_burst"
                                ELSE IF d.q[k].sp THEN "mlx4_rx_burst_sp" ELSE "mlx4_rx_burst",
                   !.dead[k] = FALSE,
                   !.last = SetupRecord(d), !.pc = [at |-> "idle"]]

\* mlx4_dev_set_mtu() after rxq_setup(): a queue that could not be rebuilt
\* gets sp = 1; then the callback is set again.
MtuReturn(d) ==
    IF d.pc.ret # 0
    THEN [d EXCEPT !.q["rx"].sp = TRUE, !.tmpl = QZero, !.dead["rx"] = TRUE,
                   !.burst["rx"] = "mlx4_rx_burst",
                   !.last = SetupRecord(d), !.pc = [at |-> "idle"]]
    ELSE [d EXCEPT !.q["rx"].flows = TRUE, !.dead["rx"] = FALSE,
                   !.burst["rx"] = IF d.q["rx"].sp THEN "mlx4_rx_burst_sp" ELSE "mlx4_rx_burst",
                   !.last = SetupRecord(d), !.pc = [at |-> "idle"]]

\* The start of a build for a call with device d and desc descriptors: the
\* template is zero but for priv, mp and socket. had, res0 and was keep what
\* the call found: whether the index was in use, the objects acquired so
\* far, the index and the structures.
BuildPc(d, k, caller, desc) ==
    [at |-> "build", k |-> k, caller |-> caller, desc |-> desc,
     had |-> d.qs[k] # "NULL", res0 |-> Len(d.res), was |-> [qs |-> d.qs, q |-> d.q],
     i |-> 1, j |-> 1, tgt |-> "tmpl", then |-> "return", ret |-> 0, step |-> "none"]

\* The device after probing: no queue, no callback.
InitDev(jumbo) ==
    [started |-> FALSE, jumbo |-> jumbo,
     burst |-> [k \in {"rx", "tx"} |-> "NULL"],
     qs |-> [k \in {"rx", "tx"} |-> "NULL"],
     mem |-> [k \in {"rx", "tx"} |-> "none"],
     q |-> [k \in {"rx", "tx"} |-> QZero],
     tmpl |-> QZero, got |-> <<>>,
     res |-> <<>>,
     own |-> [b \in 1..Desc |-> "pool"], twice |-> FALSE,
     dead |-> [k \in {"rx", "tx"} |-> FALSE],
     pc |-> [at |-> "idle"], last |-> [op |-> "none"], ops |-> 0]

InitCtl ==
    /\ \E jumbo \in BOOLEAN : dev = InitDev(jumbo)
    /\ fault = "none"
    /\ txq = Unused /\ tally = Unused /\ submitted = Unused /\ sq = Unused
    /\ cq = Unused /\ mrs = Unused /\ call = Unused
    /\ rxq = Unused /\ rmbuf = Unused /\ rq = Unused /\ rcq = Unused /\ rcall = Unused

\* mlx4_rx_queue_setup()/mlx4_tx_queue_setup() up to the call of
\* rxq_setup()/txq_setup(): an index that is not below the number of queues
\* is refused; an index in use is refused on a started device,
\* else cleared and its structure cleaned up; an unused index gets a new
\* structure, unless rte_calloc_socket() fails.
QueueSetupBegin ==
    /\ fault = "none"
    /\ dev.pc.at = "idle"
    /\ dev.ops < MaxCtlOps
    /\ \E k \in {"rx", "tx"}, calloc \in BOOLEAN, desc \in DescChoices, inrange \in BOOLEAN :
        dev' = IF ~inrange
               THEN [dev EXCEPT !.ops = @ + 1,
                                !.last = [op |-> "queue_setup", k |-> k, ret |-> -EOVERFLOW,
                                          res0 |-> Len(dev.res),
                                          was |-> [qs |-> dev.qs, q |-> dev.q]]]
               ELSE IF dev.qs[k] # "NULL" /\ dev.started
               THEN [dev EXCEPT !.ops = @ + 1,
                                !.last = [op |-> "queue_setup", k |-> k, ret |-> -EEXIST]]
               ELSE IF dev.qs[k] # "NULL"
               THEN [dev EXCEPT !.ops = @ + 1, !.qs[k] = "NULL",
                                !.pc = [BuildPc(dev, k, "queue_setup", desc)
                                            EXCEPT !.at = "cleanup", !.tgt = "q", !.then = "build"]]
               ELSE IF calloc
               THEN [dev EXCEPT !.ops = @ + 1, !.mem[k] = "alloc", !.q[k] = QZero,
                                !.pc = BuildPc(dev, k, "queue_setup", desc)]
               ELSE [dev EXCEPT !.ops = @ + 1,
                                !.last = [op |-> "queue_setup", k |-> k, ret |-> -ENOMEM]]
    /\ UNCHANGED <<txvars, rxvars, fault>>

\* mlx4_dev_set_mtu() up to rxq_setup(): once priv_set_mtu() has succeeded
\* the RX callback is replaced, the configuration updated and the RX queue
\* cleaned up in place.
MtuBegin ==
    /\ fault = "none"
    /\ dev.pc.at = "idle"
    /\ dev.ops < MaxCtlOps
    /\ \E jumbo \in BOOLEAN, set \in BOOLEAN :
        dev' = IF ~set
               THEN [dev EXCEPT !.ops = @ + 1, !.last = [op |-> "set_mtu", ret |-> EINVAL]]
               ELSE IF dev.qs["rx"] = "NULL"
               THEN [dev EXCEPT !.ops = @ + 1, !.jumbo = jumbo,
                                !.burst["rx"] = "mlx4_rx_burst",
                                !.last = [op |-> "set_mtu", ret |-> EINVAL]]
               ELSE [dev EXCEPT !.ops = @ + 1, !.jumbo = jumbo,
                                !.burst["rx"] = MtuBurst(@),
                                !.pc = [BuildPc(dev, "rx", "set_mtu",
                                                dev.q["rx"].elts_n *
                                                    (IF dev.q["rx"].sp THEN MLX4_PMD_SGE_WR_N ELSE 1))
                                            EXCEPT !.at = "cleanup", !.tgt = "q", !.then = "build"]]
    /\ UNCHANGED <<txvars, rxvars, fault>>

\* The next step of rxq_cleanup()/txq_cleanup().
CleanupStep ==
    /\ fault = "none"
    /\ dev.pc.at = "cleanup"
    /\ dev' = CleanupStore(CleanupRes(dev, Tgt(dev), dev.pc.j),
                           CleanupStruct(Tgt(dev), dev.pc.j), dev.pc.j)
    /\ UNCHANGED <<txvars, rxvars, fault>>

\* The next step of rxq_setup()/txq_setup() on the template.
BuildStep ==
    /\ fault = "none"
    /\ dev.pc.at = "build"
    /\ \E f \in StepOutcomes(dev.pc.k, SetupSteps(dev.pc.k)[dev.pc.i]) :
        dev' = AfterStep(DoStep(dev, dev.pc.k, SetupSteps(dev.pc.k)[dev.pc.i], f),
                         SetupSteps(dev.pc.k)[dev.pc.i],
                         dev.pc.i = Len(SetupSteps(dev.pc.k)))
    /\ UNCHANGED <<txvars, rxvars, fault>>

\* "*rxq = tmpl" / "*txq = tmpl".
Copy ==
    /\ fault = "none"
    /\ dev.pc.at = "copy"
    /\ dev' = [dev EXCEPT !.q[dev.pc.k] = dev.tmpl, !.tmpl = QZero, !.pc.at = "return"]
    /\ UNCHANGED <<txvars, rxvars, fault>>

\* rxq_setup()/txq_setup() returns to its caller, which finishes.
Return ==
    /\ fault = "none"
    /\ dev.pc.at = "return"
    /\ dev' = IF dev.pc.caller = "set_mtu" THEN MtuReturn(dev) ELSE SetupReturn(dev, dev.pc.k)
    /\ UNCHANGED <<txvars, rxvars, fault>>

\* mlx4_dev_start() / mlx4_dev_stop(): priv->started.
DevStartStop ==
    /\ fault = "none"
    /\ dev.pc.at = "idle"
    /\ dev' = [dev EXCEPT !.started = ~@]
    /\ UNCHANGED <<txvars, rxvars, fault>>

\* What a burst call through callback cb does with index entry ptr and
\* structure s: "zero" returns 0 without touching anything, "poll" calls
\* ibv_poll_cq() on a completion queue that exists and gets nothing,
\* "crash" reads through NULL or uses an object that was destroyed.
BurstOutcome(d, k, cb, ptr, s) ==
    IF cb \in {"removed_rx_burst", "removed_tx_burst"} THEN "zero"
    ELSE IF ptr = "NULL" THEN "crash"
    ELSE IF k = "rx" /\ s.sp /\ ~s.has_elts THEN "zero"
    ELSE IF Live(d, s.cq) THEN "poll"
    ELSE "crash"

\* The application calls dev->rx_pkt_burst / dev->tx_pkt_burst with the entry
\* of the queue index.
Burst ==
    /\ fault = "none"
    /\ \E k \in {"rx", "tx"} :
        /\ dev.burst[k] # "NULL"
        /\ dev' = [dev EXCEPT !.last =
                        [op |-> "burst", k |-> k, ret |-> 0,
                         did |-> BurstOutcome(dev, k, dev.burst[k], dev.qs[k], dev.q[k])]]
        /\ fault' = IF BurstOutcome(dev, k, dev.burst[k], dev.qs[k], dev.q[k]) = "crash"
                    THEN "crash" ELSE "none"
    /\ UNCHANGED <<txvars, rxvars>>

NextCtl ==
    \/ QueueSetupBegin
    \/ MtuBegin
    \/ CleanupStep
    \/ BuildStep
    \/ Copy
    \/ Return
    \/ DevStartStop
    \/ Burst

SpecCtl == InitCtl /\ [][NextCtl]_vars

\* The objects and arrays acquired since entry number n of dev.res.
ResSince(n) == {id \in 1..Len(dev.res) : id > n}

\* C18: when a step of rxq_setup()/txq_setup() fails, every object, array
\* and mbuf acquired for the new ring has been released exactly once by the
\* time the function returns, the value returned is a negative error code,
\* and the queue index does not lead to a partly built ring: it is NULL, or
\* (MTU change) it leads to a zeroed structure.
C18_SetupAllOrNothing ==
    (dev.pc.at = "idle" /\ dev.last.op = "setup" /\ dev.last.ret # 0) =>
        /\ dev.last.ret < 0
        /\ \A id \in ResSince(dev.last.res0) : dev.res[id].rel = 1
        /\ dev.last.k = "rx" => (\A b \in DOMAIN dev.own : dev.own[b] = "pool") /\ ~dev.twice
        /\ dev.tmpl = QZero
        /\ IF dev.last.caller = "set_mtu"
           THEN Empty(dev.q[dev.last.k])
           ELSE dev.qs[dev.last.k] = "NULL"

\* The initial post of the RX descriptors failed, with the array and its
\* mbufs, the queue pair, the completion queue and the memory region held.
C18_Witness ==
    /\ dev.pc.at = "idle"
    /\ dev.last.op = "setup"
    /\ dev.last.step = "post_recv"
    /\ dev.last.ret # 0
    /\ Cardinality(ResSince(dev.last.res0)) = 4

\* The ring a burst call on index k works on, if the callback is a burst
\* function of the driver and the entry of the index is not NULL.
Reachable(k) ==
    /\ dev.burst[k] \in {"mlx4_rx_burst", "mlx4_rx_burst_sp", "mlx4_tx_burst"}
    /\ dev.qs[k] # "NULL"

C20_FailedRebuildIsDead ==
    \A k \in {"rx", "tx"} :
        (dev.dead[k] /\ dev.pc.at = "idle") =>
            /\ \A id \in 1..Len(dev.res) : dev.res[id].k = k => dev.res[id].rel = 1
            /\ k = "rx" => (\A b \in DOMAIN dev.own : dev.own[b] = "pool") /\ ~dev.twice
            /\ dev.qs[k] # "NULL" => Empty(dev.q[k])
            /\ (dev.last.op = "burst" /\ dev.last.k = k) =>
                    (fault = "none" /\ dev.last.ret = 0 /\ dev.last.did = "zero")

\* C21: a queue setup called with a descriptor count that is zero or not a
\* multiple of MLX4_PMD_SGE_WR_N returns -EINVAL, one called with an index
\* out of range returns -EOVERFLOW; either creates no object and leaves the
\* queue index and every queue structure as the call found them, the queue
\* that existed at the index included.
C21_InvalidArgsChangeNothing ==
    /\ (/\ dev.pc.at = "idle"
        /\ dev.last.op = "setup"
        /\ dev.last.caller = "queue_setup"
        /\ (dev.last.desc = 0 \/ dev.last.desc % MLX4_PMD_SGE_WR_N # 0)) =>
            /\ dev.last.ret = -EINVAL
            /\ Len(dev.res) = dev.last.res0
            /\ dev.qs = dev.last.was.qs
            /\ dev.q = dev.last.was.q
    /\ (/\ dev.pc.at = "idle"
        /\ dev.last.op = "queue_setup"
        /\ dev.last.ret = -EOVERFLOW) =>
            /\ Len(dev.res) = dev.last.res0
            /\ dev.qs = dev.last.was.qs
            /\ dev.q = dev.last.was.q

\* C22: txq_cleanup() releases exactly what the ring holds, each thing
\* once: the memory regions it deregisters are registered, none of the
\* ring's regions stays registered, no buffer is freed twice, the structure
\* is zeroed, and a second txq_cleanup() of the zeroed structure changes
\* nothing.
C22_TeardownExactOnce ==
    [][(call'.op = "cleanup") =>
        /\ \A i \in 1..Len(txq.mp2mr) : txq.mp2mr[i].mr \in mrs.reg
        /\ mrs'.reg = {}
        /\ tally'.twice = tally.twice
        /\ txq' = txq_alloc_elts(0)
        /\ txq_cleanup(Machine)'.q = txq'
        /\ txq_cleanup(Machine)'.mrs = mrs'
        /\ txq_cleanup(Machine)'.tally = tally']_vars

(***************************************************************************)
(* The control lock. Application threads call the control functions of the *)
(* device; each takes priv->lock with priv_lock(), a spinlock, and leaves   *)
(* through one of its return statements. dev.lock is 0 when the lock is    *)
(* free, else the thread that took it; dev.th[t] is where thread t is:     *)
(* "out" of any control function, at its priv_lock() ("lock"), or past it  *)
(* ("in"), with the function and the line of the return it left through.   *)
(***************************************************************************)
Threads == {1, 2}

\* The control functions that call priv_lock().
CtlOps ==
    {"mlx4_dev_configure", "mlx4_tx_queue_setup", "mlx4_tx_queue_release",
     "mlx4_rx_queue_setup", "mlx4_rx_queue_release", "mlx4_dev_start", "mlx4_dev_stop",
     "mlx4_dev_close", "mlx4_dev_infos_get", "mlx4_stats_get", "mlx4_stats_reset",
     "mlx4_mac_addr_remove", "mlx4_mac_addr_add", "mlx4_promiscuous_enable",
     "mlx4_promiscuous_disable", "mlx4_allmulticast_enable", "mlx4_allmulticast_disable",
     "mlx4_link_update", "mlx4_dev_get_mtu", "mlx4_dev_set_mtu", "mlx4_dev_get_flow_ctrl",
     "mlx4_dev_set_flow_ctrl", "mlx4_vlan_filter_set"}

\* The lines of mlx4.c at which each of the other functions returns after
\* priv_lock(), all of them after a priv_unlock().
UnlockedReturns(op) ==
    IF op = "mlx4_dev_configure" THEN {511}
    ELSE IF op = "mlx4_tx_queue_setup" THEN {1124, 1131, 1142, 1157}
    ELSE IF op = "mlx4_tx_queue_release" THEN {1181}
    ELSE IF op = "mlx4_rx_queue_setup" THEN {2340, 2347, 2358, 2376}
    ELSE IF op = "mlx4_rx_queue_release" THEN {2401}
    ELSE IF op = "mlx4_dev_close" THEN {2567}
    ELSE IF op = "mlx4_dev_infos_get" THEN {2593}
    ELSE IF op = "mlx4_stats_get" THEN {2642}
    ELSE IF op = "mlx4_stats_reset" THEN {2670}
    ELSE IF op = "mlx4_mac_addr_remove" THEN {2689}
    ELSE IF op = "mlx4_mac_addr_add" THEN {2712}
    ELSE IF op = "mlx4_promiscuous_enable" THEN {2724, 2733, 2748, 2753}
    ELSE IF op = "mlx4_promiscuous_disable" THEN {2764, 2776}
    ELSE IF op = "mlx4_allmulticast_enable" THEN {2788, 2797, 2812, 2817}
    ELSE IF op = "mlx4_allmulticast_disable" THEN {2828, 2840}
    ELSE IF op = "mlx4_link_update" THEN {2883}
    ELSE IF op = "mlx4_dev_get_mtu" THEN {2901}
    ELSE IF op = "mlx4_dev_set_mtu" THEN {2982}
    ELSE IF op = "mlx4_dev_get_flow_ctrl" THEN {3017}
    ELSE IF op = "mlx4_dev_set_flow_ctrl" THEN {3053}
    ELSE {3143}

\* The ways function op returns once it holds the lock, with priv->started
\* as it finds it: <<line of the return, whether priv_unlock() was called
\* on the way, priv->started afterwards>>. mlx4_dev_start() returns 0 at
\* once on a started device; else it attaches the flows and returns 0, or,
\* when the attachment fails, rolls back and returns -1.
ReturnPaths(op, started) ==
    IF op = "mlx4_dev_start"
    THEN (IF started THEN {<<2415, TRUE, TRUE>>}
          ELSE {<<2450, FALSE, FALSE>>, <<2454, TRUE, TRUE>>})
    ELSE IF op = "mlx4_dev_stop"
    THEN (IF started THEN {<<2492, TRUE, FALSE>>} ELSE {<<2469, TRUE, FALSE>>})
    ELSE {<<l, TRUE, started>> : l \in UnlockedReturns(op)}

InitLock ==
    /\ dev = [lock |-> 0, started |-> FALSE,
              th |-> [t \in Threads |-> [at |-> "out", op |-> "none", line |-> 0]]]
    /\ fault = "none"
    /\ txq = Unused /\ tally = Unused /\ submitted = Unused /\ sq = Unused
    /\ cq = Unused /\ mrs = Unused /\ call = Unused
    /\ rxq = Unused /\ rmbuf = Unused /\ rq = Unused /\ rcq = Unused /\ rcall = Unused

\* Thread t calls a control function, which reaches its priv_lock().
\* mlx4_tx_queue_release() and mlx4_rx_queue_release() return before it
\* when the queue pointer is NULL.
CtlCall(t) ==
    /\ dev.th[t].at = "out"
    /\ \E op \in CtlOps, null \in BOOLEAN :
        dev' = IF null /\ op = "mlx4_tx_queue_release"
               THEN [dev EXCEPT !.th[t] = [at |-> "out", op |-> op, line |-> 1168]]
               ELSE IF null /\ op = "mlx4_rx_queue_release"
               THEN [dev EXCEPT !.th[t] = [at |-> "out", op |-> op, line |-> 2387]]
               ELSE [dev EXCEPT !.th[t] = [at |-> "lock", op |-> op, line |-> 0]]
    /\ UNCHANGED <<txvars, rxvars, fault>>

\* priv_lock(): rte_spinlock_lock() returns once it has found the lock free
\* and taken it.
PrivLock(t) ==
    /\ dev.th[t].at = "lock"
    /\ dev.lock = 0
    /\ dev' = [dev EXCEPT !.lock = t, !.th[t].at = "in"]
    /\ UNCHANGED <<txvars, rxvars, fault>>

\* The function runs to one of its return statements; priv_unlock() on the
\* way stores 0 in the lock.
CtlReturn(t) ==
    /\ dev.th[t].at = "in"
    /\ \E p \in ReturnPaths(dev.th[t].op, dev.started) :
        dev' = [dev EXCEPT !.lock = IF p[2] THEN 0 ELSE @,
                           !.started = p[3],
                           !.th[t] = [at |-> "out", op |-> dev.th[t].op, line |-> p[1]]]
    /\ UNCHANGED <<txvars, rxvars, fault>>

NextLock == \E t \in Threads : CtlCall(t) \/ PrivLock(t) \/ CtlReturn(t)

SpecLock == InitLock /\ [][NextLock]_vars

\* C23: the control functions are serialized by priv->lock: no two threads
\* are past priv_lock() at once, the lock is held by the thread that is,
\* and when no thread is inside a control function the lock is free, every
\* return path having released it, so that the next call can take it.
C23_ControlSerialized ==
    /\ \A t, u \in Threads : (dev.th[t].at = "in" /\ dev.th[u].at = "in") => t = u
    /\ \A t \in Threads : dev.th[t].at = "in" => dev.lock = t
    /\ (\A t \in Threads : dev.th[t].at # "in") => dev.lock = 0

\* C24: a call of mlx4_rx_burst()/mlx4_rx_burst_sp() writes the ring it
\* was called on and nothing the queues of the port share: dev->data is
\* left as it was.
C24_BurstWritesOwnRing ==
    [][(rcall'.op = "rx_burst") => dev' = dev]_vars

\* C25: every call of mlx4_tx_burst(), with the txq_complete() it starts
\* with, comes to its end: the walk back over the comp links after a
\* rejected post stops, and no walk of a completion chain or of the
\* lost_comp list in txq_complete() breaks off before the end of the chain.
C25_CallsTerminate ==
    /\ fault # "hang"
    /\ call.op = "fault" => ~call.in_complete

\* C26: nothing that happens in mlx4_tx_burst() and txq_complete() stops
\* the process: poll errors, bad completion statuses, memory regions that
\* cannot be registered, packets of too many segments and rejected posts
\* leave the call to return (the only fatal event of the hot path is the
\* rejected ibv_post_recv() of the receive functions).
C26_OnlyRepostIsFatal ==
    fault = "none"

(***************************************************************************)
(* The TX ring in the plain case: a ring set up for a number of            *)
(* descriptors, bursts of one-segment packets of 64 bytes from one         *)
(* mempool, and an adapter that accepts and completes every work request.  *)
(* A burst of no packet is a call of txq_complete().                       *)
(***************************************************************************)
\* The packets offered in all.
MaxScnSubmitted == 6
\* The packets of a burst.
ScnPkts == 3

\* The descriptor counts the ring is set up for.
ScnDescs == {Desc, 2 * Desc, 3 * Desc}

\* One segment of 64 bytes.
ScnShape == <<Seg(1, 64)>>

\* txq_setup(): desc /= MLX4_PMD_SGE_WR_N, then txq_alloc_elts(&tmpl, desc).
InitScn ==
    /\ \E desc \in ScnDescs : txq = txq_alloc_elts(desc \div MLX4_PMD_SGE_WR_N)
    /\ tally = [owed |-> 0, twice |-> FALSE, stolen |-> FALSE]
    /\ submitted = 0
    /\ sq = <<>>
    /\ cq = <<>>
    /\ mrs = [n |-> 0, reg |-> {}]
    /\ call = NoCall
    /\ fault = "none"
    /\ rxq = Unused /\ rmbuf = Unused /\ rq = Unused /\ rcq = Unused /\ rcall = Unused
    /\ dev = Unused

\* The application calls mlx4_tx_burst() with n packets.
TxBurstScn ==
    /\ fault = "none"
    /\ \E n \in 0..ScnPkts :
            /\ submitted + n <= MaxScnSubmitted
            /\ submitted' = submitted + n
            /\ TxBurstDone(MkPkts([i \in 1..n |-> ScnShape]), CompleteDrain(Machine, FALSE),
                           txq_complete(Machine, FALSE),
                           mlx4_tx_burst(Machine, MkPkts([i \in 1..n |-> ScnShape]),
                                         {}, FALSE, 0))
    /\ UNCHANGED <<rxvars, dev>>

NextScn == TxBurstScn \/ HwSendOk

SpecScn == InitScn /\ [][NextScn]_vars

\* C27 as stated: on a ring set up for 4 descriptors, a burst of 3 packets
\* of one segment returns 3.
C27_FourDescriptorsTakeThree ==
    [][(/\ txq.elts_n = Desc \div MLX4_PMD_SGE_WR_N
        /\ txq.elts_used = 0
        /\ call'.op = "tx_burst"
        /\ call'.pkts_n = ScnPkts) => call'.ret = ScnPkts]_vars

\* C27: on an empty ring set up for desc descriptors, which has desc / 4
\* elements, a burst of 3 packets of one segment and 64 bytes returns
\* min(3, desc / 4) - 1 for 4 descriptors, 3 for 12 - with that many work
\* requests posted and buffers held for one completion event; and when the
\* completion of the only batch outstanding has arrived, the next
\* txq_complete() frees the buffers of all the packets accepted and leaves
\* elts_comp at 0 and the ring empty.
C27_BurstThenComplete ==
    [][/\ (/\ txq.elts_used = 0
           /\ call'.op = "tx_burst"
           /\ call'.pkts_n = ScnPkts) =>
                /\ call'.ret = Min(ScnPkts, txq.elts_n)
                /\ txq'.elts_used = call'.ret
                /\ txq'.elts_comp = 1
                /\ tally'.owed = tally.owed + call'.ret
                /\ Len(sq') = Len(sq) + call'.ret
                /\ txq'.stats.opackets = txq.stats.opackets + call'.ret
                /\ txq'.stats.obytes = txq.stats.obytes + 64 * call'.ret
       /\ (/\ txq.elts_comp = 1
           /\ Len(cq) = 1
           /\ call'.op = "tx_burst"
           /\ call'.pkts_n = 0) =>
                /\ call'.ret = 0
                /\ Len(call'.reclaimed) = txq.elts_used
                /\ tally'.owed = tally.owed - txq.elts_used
                /\ ~tally'.twice /\ ~tally'.stolen
                /\ txq'.elts_comp = 0
                /\ txq'.elts_used = 0
                /\ txq'.elts_free = txq.elts_n
                /\ \A sj \in Slots(txq') \X SGE : txq'.elts_buf[sj[1]].bufs[sj[2]] = NULL]_vars

\* The ring of 4 descriptors was offered 3 packets and took one, and the
\* call after its completion event has freed the buffer.
C27_Witness ==
    /\ txq.elts_n = 1
    /\ submitted = ScnPkts
    /\ txq.stats.opackets = 1
    /\ call.op = "tx_burst"
    /\ call.pkts_n = 0
    /\ call.wcs_n = 1
    /\ Len(call.reclaimed) = 1
    /\ txq.elts_comp = 0

(***************************************************************************)
(* The RX ring from its setup on: rxq_setup() is called for a number of    *)
(* descriptors on a queue that has no ring yet, then the ring is used as   *)
(* in SpecRx.                                                              *)
(***************************************************************************)
InitRxScn ==
    /\ rxq = [rxq_setup(FALSE, 0) EXCEPT !.elts = <<>>]
    /\ rmbuf = [own |-> [b \in RxMbufs |-> "pool"],
                twice |-> FALSE, stolen |-> FALSE, dup |-> FALSE]
    /\ rq = [wrs |-> <<>>, consumed |-> 0]
    /\ rcq = <<>>
    /\ rcall = NoCall
    /\ fault = "none"
    /\ txq = Unused /\ tally = Unused /\ submitted = Unused /\ sq = Unused
    /\ cq = Unused /\ mrs = Unused /\ call = Unused
    /\ dev = [rx_mbuf_alloc_failed |-> 0]

\* rxq_setup(dev, rxq, desc, ...) when nothing fails but the check of desc:
\* -EINVAL for 0 or a count that is not a multiple of MLX4_PMD_SGE_WR_N;
\* else the ring is scattered or not, desc is divided by MLX4_PMD_SGE_WR_N
\* if it is, and the elements are allocated and posted.
RxSetupScn ==
    /\ fault = "none"
    /\ rcall = NoCall
    /\ \E desc \in DescChoices, sp \in BOOLEAN :
        IF desc = 0 \/ desc % MLX4_PMD_SGE_WR_N # 0
        THEN /\ rcall' = [op |-> "rxq_setup", desc |-> desc, sp |-> sp, ret |-> -EINVAL]
             /\ UNCHANGED <<rxq, rmbuf, rq>>
        ELSE /\ rcall' = [op |-> "rxq_setup", desc |-> desc, sp |-> sp, ret |-> 0]
             /\ rxq' = rxq_setup(sp, IF sp THEN desc \div MLX4_PMD_SGE_WR_N ELSE desc)
             /\ rmbuf' = InitPool(rxq')
             /\ rq' = [wrs |-> [c \in 1..rxq'.elts_n |-> RqEntry(rxq'.elts[c - 1])],
                       consumed |-> 0]
    /\ UNCHANGED <<rcq, fault, dev, txvars>>

NextRxScn == RxSetupScn \/ NextRx

SpecRxScn == InitRxScn /\ [][NextRxScn]_vars

C29_FreeSlotsHoldNothing ==
    fault = "none" =>
        \A s \in Slots(txq) :
            (\E k \in 0..(txq.elts_free - 1) : s = (txq.elts_cur + k) % txq.elts_n)
                <=> (\A j \in SGE : txq.elts_buf[s].bufs[j] = NULL)

\* C30: once mlx4_tx_burst() has returned, the elements keep nothing of
\* the packets it dropped or left unsent: no bufs[] entry points to an mbuf
\* of a dropped packet or of a packet left with the caller, no element is
\* its own comp link, and no work request handed to the adapter has
\* num_sge = 0.
C30_NoTraceOfDroppedPackets ==
    fault = "none" =>
        /\ \A s \in Slots(txq), j \in SGE :
                txq.elts_buf[s].bufs[j].st \notin {"dropped", "caller"}
        /\ \A s \in Slots(txq) : txq.elts_buf[s].comp # s
        /\ \A x \in 1..Len(sq) : sq[x].num_sge > 0

(***************************************************************************)
(* Further properties of the TX ring.                                      *)
(***************************************************************************)
\* C31: txq_complete() does not free the buffers of an element of
\* txq->lost_comp while the work request of that element, accepted by
\* mlx4_post_send() without IBV_SEND_SIGNALED, is still in the send queue
\* of the adapter, whatever batch the polled completion belongs to.
C31_FreedAfterHardwareDone ==
    [][call'.op = "tx_burst" =>
        \A x \in 1..Len(call'.drain.reclaimed) :
            \A y \in 1..Len(sq) : sq[y].wr_id # call'.drain.reclaimed[x]]_vars

\* C32: after mlx4_post_send() has taken k of the chained work requests of a
\* burst that started with elts_cur = c and rejected the next one, elts_cur
\* is (c + k) mod elts_n, also when the burst went past the end of the ring
\* (bursts in which no packet was dropped, so that every work request of
\* the chain has an element of its own).
C32_RollbackCursor ==
    [][(call'.op = "tx_burst" /\ call'.err /\ call'.ndropped = 0) =>
        txq'.elts_cur = (txq.elts_cur + call'.k) % txq.elts_n]_vars

RECURSIVE PolledChains(_, _, _)
\* The elements linked through comp from the elements the first n
\* completions of wcs name, in the order txq_complete() walks them.
PolledChains(q, wcs, n) ==
    IF n = 0 THEN <<>>
    ELSE PolledChains(q, wcs, n - 1) \o LostList(q, wcs[n].wr_id, q.elts_n + 1)

\* C33: for the completions txq_complete() polls, every element linked
\* through comp from the element a completion names is reclaimed (its
\* buffers freed) once, with one --elts_used and one ++elts_free per
\* element, and elts_comp goes down by one per completion; the function
\* gets to its end.
C33_OncePerCompletion ==
    [][/\ (call'.op = "tx_burst" /\ call'.wcs_n > 0) =>
            /\ call'.reclaimed =
                    call'.drain.reclaimed \o PolledChains(txq, cq, call'.wcs_n)
            /\ call'.mid.elts_used =
                    call'.drain.used - Len(PolledChains(txq, cq, call'.wcs_n))
            /\ call'.mid.elts_free =
                    call'.drain.free + Len(PolledChains(txq, cq, call'.wcs_n))
            /\ call'.mid.elts_comp = txq.elts_comp - call'.wcs_n
       /\ (call'.op = "fault" /\ call'.in_complete) => call'.in_drain]_vars

\* C34: in the chain mlx4_tx_burst() hands to mlx4_post_send() the last work
\* request, and no other, has IBV_SEND_SIGNALED set, and that work request
\* carries a packet (num_sge > 0); when the post succeeds elts_comp is one
\* higher than txq_complete() left it.
C34_OneSignalPerChain ==
    (call.op = "tx_burst" /\ call.posted) =>
        /\ \A x \in 1..Len(call.chain) :
                txq.elts_wr[call.chain[x]].signaled = (x = Len(call.chain))
        /\ txq.elts_wr[call.chain[Len(call.chain)]].num_sge > 0
        /\ (~call.err => txq.elts_comp = call.mid.elts_comp + 1)

(***************************************************************************)
(* Further properties of the RX ring.                                      *)
(***************************************************************************)
\* C35: a call of mlx4_rx_burst[_sp]() hands to ibv_post_recv() one work
\* request for every completion it polled, whether the completion was
\* successful, had an error status or met an allocation failure, and none
\* when it polled nothing; the receive work requests posted and the
\* completions not polled yet are together as many as the ring has
\* elements, so that once every completion has been polled the whole ring
\* is posted again.
C35_EveryCompletionReposted ==
    [][rcall'.op = "rx_burst" =>
        /\ Len(rq'.wrs) = Len(rq.wrs) + (IF rcall'.wcs_n > 0 THEN rcall'.wcs_n ELSE 0)
        /\ Len(rcall'.log) = (IF rcall'.wcs_n > 0 THEN rcall'.wcs_n ELSE 0)
        /\ Len(rcq') = Len(rcq) - (IF rcall'.wcs_n > 0 THEN rcall'.wcs_n ELSE 0)
        /\ Len(rq'.wrs) + Len(rcq') = rxq.elts_n]_vars

\* C35 witness: a call has polled two completions, one with an error status
\* and one whose replacement could not be allocated, and every element of
\* the ring is posted.
C35_Witness ==
    /\ rcall.op = "rx_burst"
    /\ rcall.wcs_n = 2
    /\ \E c, d \in 1..2 : rcall.log[c].wc.status = "error" /\ rcall.log[d].failed
    /\ Len(rq.wrs) = rxq.elts_n

\* C36: the value mlx4_rx_burst[_sp]() returns is the number of packets it
\* stored through pkts, which is at most the number of completions polled
\* (itself at most pkts_n); when ibv_poll_cq() fails the call stores no
\* packet and returns none.
C36_ReturnsStoredCount ==
    rcall.op = "rx_burst" =>
        /\ rcall.ret = Len(rcall.pkts)
        /\ rcall.ret <= (IF rcall.wcs_n > 0 THEN rcall.wcs_n ELSE 0)
        /\ (rcall.wcs_n < 0 => rcall.ret = 0)

RECURSIVE AcceptedBytes(_, _, _)
\* The bytes of the packets in the first k work requests of the chain, as
\* the ring q holds them after the call: pkt_len of the packet whose first
\* segment is bufs[0], nothing for a work request without segments.
AcceptedBytes(q, chain, k) ==
    IF k = 0 THEN 0
    ELSE AcceptedBytes(q, chain, k - 1)
            + (IF q.elts_wr[chain[k]].num_sge > 0
               THEN q.elts_buf[chain[k]].bufs[1].pkt_len ELSE 0)

\* C37: a call of mlx4_tx_burst() adds to stats.opackets the number of its
\* packets the adapter accepted, to stats.obytes the bytes of those packets
\* and to stats.odropped the number of packets it dropped; packets dropped
\* and packets of work requests mlx4_post_send() did not take add nothing
\* to opackets and obytes.
C37_SoftCounters ==
    [][call'.op = "tx_burst" =>
        /\ txq'.stats.opackets - txq.stats.opackets = call'.naccepted
        /\ txq'.stats.obytes - txq.stats.obytes
                = AcceptedBytes(txq', call'.chain, call'.k)
        /\ txq'.stats.odropped - call'.mid.odropped = call'.ndropped]_vars

(***************************************************************************)
(* Further properties of the memory region cache.                          *)
(***************************************************************************)
\* C39: txq->mp2mr[] never holds more than MLX4_PMD_TX_MP_CACHE entries
\* (the entries before the first one with mp == NULL, which is how the
\* table is held here), no mempool has two entries, and a call of
\* txq_mp2mr() for a mempool that has an entry returns the lkey of that
\* entry, registers nothing and leaves the table as it was.
C39_CacheBounded ==
    /\ Len(txq.mp2mr) <= MLX4_PMD_TX_MP_CACHE
    /\ \A i, j \in 1..Len(txq.mp2mr) :
            txq.mp2mr[i].mp = txq.mp2mr[j].mp => i = j
    /\ call.op = "mp2mr" =>
            \A i \in 1..Len(call.table) :
                call.table[i].mp = call.mp =>
                    /\ call.lkey = call.table[i].lkey
                    /\ txq.mp2mr = call.table
                    /\ mrs.reg = call.reg
                    /\ mrs.n = call.n

\* C39 witness: the table is full, entries have been evicted from it, and
\* the last call found its mempool in the last entry.
C39_Witness ==
    /\ call.op = "mp2mr"
    /\ Len(call.table) = MLX4_PMD_TX_MP_CACHE
    /\ call.table[1].mp # 1
    /\ call.table[MLX4_PMD_TX_MP_CACHE].mp = call.mp
    /\ call.lkey = call.table[MLX4_PMD_TX_MP_CACHE].lkey

(***************************************************************************)
(* Statistics: mlx4_stats_reset() on a port configured for rxqs_n RX and   *)
(* txqs_n TX queues, each index holding NULL or a queue with its software  *)
(* counters. dev holds priv->rxqs_n, priv->txqs_n and the two arrays of    *)
(* queue pointers; a call works on a machine m with m.d (these), m.fault   *)
(* and m.idx (the local idx).                                              *)
(***************************************************************************)
\* Largest number of queues of one kind the port is configured for.
StatQueues == 2
\* Largest value a counter reaches.
MaxStat == 1
\* What reading (*priv->rxqs)[i]->stats.idx yields for i >= rxqs_n, past the
\* end of the array: the process stops (held as -1), or some value is read.
OobReads == (-1)..StatQueues

\* struct mlx4_rxq_stats / mlx4_txq_stats with all counters zero:
\* (struct mlx4_rxq_stats){ .idx = idx }.
RxqStats(idx) ==
    [idx |-> idx, ipackets |-> 0, ibytes |-> 0, idropped |-> 0, rx_nombuf |-> 0]
TxqStats(idx) ==
    [idx |-> idx, opackets |-> 0, obytes |-> 0, odropped |-> 0]

\* The queue mlx4_rx_queue_setup() / mlx4_tx_queue_setup() stores at index
\* idx: "rxq->stats.idx = idx", "txq->stats.idx = idx".
NewQueue(kind, idx) ==
    IF kind = "rx" THEN [ptr |-> "rxq", stats |-> RxqStats(idx), elts_n |-> Desc]
    ELSE [ptr |-> "txq", stats |-> TxqStats(idx), elts_n |-> Desc \div MLX4_PMD_SGE_WR_N]

\* A NULL entry of priv->rxqs / priv->txqs: ptr is "NULL" and there is no
\* queue behind it.
NoQueue(kind) ==
    [ptr |-> "NULL", stats |-> IF kind = "rx" THEN RxqStats(0) ELSE TxqStats(0),
     elts_n |-> 0]

RECURSIVE StatsResetRx(_, _)
\* The first loop of mlx4_stats_reset(), from index i on.
StatsResetRx(m, i) ==
    IF i = m.d.rxqs_n THEN m
    ELSE IF m.d.rxqs[i].ptr = "NULL" THEN StatsResetRx(m, i + 1)
    ELSE StatsResetRx([m EXCEPT !.d.rxqs[i].stats = RxqStats(m.d.rxqs[i].stats.idx)],
                      i + 1)

\* "idx = (*priv->rxqs)[i]->stats.idx;" in the second loop: the RX queue of
\* index i is read, whether there is one or not.
StatsReadIdx(m, i, oob) ==
    IF i >= m.d.rxqs_n
    THEN (IF oob < 0 THEN [m EXCEPT !.fault = "crash"] ELSE [m EXCEPT !.idx = oob])
    ELSE IF m.d.rxqs[i].ptr = "NULL" THEN [m EXCEPT !.fault = "crash"]
    ELSE [m EXCEPT !.idx = m.d.rxqs[i].stats.idx]

\* "(*priv->txqs)[i]->stats = (struct mlx4_txq_stats){ .idx = idx };"
StatsStoreTx(m, i) ==
    IF m.fault # "none" THEN m
    ELSE [m EXCEPT !.d.txqs[i].stats = TxqStats(m.idx)]

RECURSIVE StatsResetTx(_, _, _)
\* The second loop of mlx4_stats_reset(), from index i on.
StatsResetTx(m, i, oob) ==
    IF m.fault # "none" \/ i = m.d.txqs_n THEN m
    ELSE IF m.d.txqs[i].ptr = "NULL" THEN StatsResetTx(m, i + 1, oob)
    ELSE StatsResetTx(StatsStoreTx(StatsReadIdx(m, i, oob), i), i + 1, oob)

\* mlx4_stats_reset().
mlx4_stats_reset(m, oob) == StatsResetTx(StatsResetRx(m, 0), 0, oob)

\* The port after mlx4_dev_configure(): no queue is set up yet.
InitStats ==
    /\ \E rn \in 1..StatQueues, tn \in 1..StatQueues :
            dev = [rxqs_n |-> rn, txqs_n |-> tn,
                   rxqs |-> [i \in 0..(rn - 1) |-> NoQueue("rx")],
                   txqs |-> [i \in 0..(tn - 1) |-> NoQueue("tx")]]
    /\ call = NoCall
    /\ fault = "none"
    /\ txq = Unused /\ tally = Unused /\ submitted = Unused /\ sq = Unused
    /\ cq = Unused /\ mrs = Unused
    /\ rxq = Unused /\ rmbuf = Unused /\ rq = Unused /\ rcq = Unused /\ rcall = Unused

\* A queue is set up at a free index.
StatsQueueSetup ==
    /\ fault = "none"
    /\ \/ \E i \in DOMAIN dev.rxqs :
            /\ dev.rxqs[i].ptr = "NULL"
            /\ dev' = [dev EXCEPT !.rxqs[i] = NewQueue("rx", i)]
       \/ \E i \in DOMAIN dev.txqs :
            /\ dev.txqs[i].ptr = "NULL"
            /\ dev' = [dev EXCEPT !.txqs[i] = NewQueue("tx", i)]
    /\ call' = [op |-> "queue_setup"]
    /\ UNCHANGED <<txq, tally, submitted, sq, cq, mrs, fault, rxvars>>

\* A queue is released: mlx4_rx_queue_release() / mlx4_tx_queue_release()
\* store NULL at its index.
StatsQueueRelease ==
    /\ fault = "none"
    /\ \/ \E i \in DOMAIN dev.rxqs :
            /\ dev.rxqs[i].ptr # "NULL"
            /\ dev' = [dev EXCEPT !.rxqs[i] = NoQueue("rx")]
       \/ \E i \in DOMAIN dev.txqs :
            /\ dev.txqs[i].ptr # "NULL"
            /\ dev' = [dev EXCEPT !.txqs[i] = NoQueue("tx")]
    /\ call' = [op |-> "queue_release"]
    /\ UNCHANGED <<txq, tally, submitted, sq, cq, mrs, fault, rxvars>>

\* Burst calls on a queue move its counters: packets received or sent with
\* their bytes, packets dropped, replacement mbufs that could not be
\* allocated.
StatsTraffic ==
    /\ fault = "none"
    /\ \/ \E i \in DOMAIN dev.rxqs :
            /\ dev.rxqs[i].ptr # "NULL"
            /\ \/ /\ dev.rxqs[i].stats.ipackets < MaxStat
                  /\ dev' = [dev EXCEPT !.rxqs[i].stats.ipackets = @ + 1,
                                        !.rxqs[i].stats.ibytes = @ + 1]
               \/ /\ dev.rxqs[i].stats.idropped < MaxStat
                  /\ dev' = [dev EXCEPT !.rxqs[i].stats.idropped = @ + 1]
               \/ /\ dev.rxqs[i].stats.rx_nombuf < MaxStat
                  /\ dev' = [dev EXCEPT !.rxqs[i].stats.rx_nombuf = @ + 1]
       \/ \E i \in DOMAIN dev.txqs :
            /\ dev.txqs[i].ptr # "NULL"
            /\ \/ /\ dev.txqs[i].stats.opackets < MaxStat
                  /\ dev' = [dev EXCEPT !.txqs[i].stats.opackets = @ + 1,
                                        !.txqs[i].stats.obytes = @ + 1]
               \/ /\ dev.txqs[i].stats.odropped < MaxStat
                  /\ dev' = [dev EXCEPT !.txqs[i].stats.odropped = @ + 1]
    /\ call' = [op |-> "burst"]
    /\ UNCHANGED <<txq, tally, submitted, sq, cq, mrs, fault, rxvars>>

\* The effect on the variables of mlx4_stats_reset() taking the machine to
\* r; the call record keeps the queues as they were.
StatsResetDone(r) ==
    IF r.fault # "none"
    THEN /\ fault' = r.fault
         /\ call' = [op |-> "fault"]
         /\ UNCHANGED dev
    ELSE /\ dev' = r.d
         /\ call' = [op |-> "stats_reset", was |-> dev]
         /\ UNCHANGED fault

\* The application calls mlx4_stats_reset().
StatsReset ==
    /\ fault = "none"
    /\ \E oob \in OobReads :
            StatsResetDone(mlx4_stats_reset([d |-> dev, fault |-> "none", idx |-> 0], oob))
    /\ UNCHANGED <<txq, tally, submitted, sq, cq, mrs, rxvars>>

NextStats == StatsQueueSetup \/ StatsQueueRelease \/ StatsTraffic \/ StatsReset

SpecStats == InitStats /\ [][NextStats]_vars

\* C40: mlx4_stats_reset() returns for every combination of existing
\* queues, and after it every existing RX and TX queue has all its counters
\* at zero and the stats.idx and the ring it had before; no queue appears
\* or disappears.
C40_StatsResetSafe ==
    /\ fault = "none"
    /\ call.op = "stats_reset" =>
        /\ \A i \in DOMAIN dev.rxqs :
                IF call.was.rxqs[i].ptr = "NULL" THEN dev.rxqs[i] = NoQueue("rx")
                ELSE /\ dev.rxqs[i].stats = RxqStats(call.was.rxqs[i].stats.idx)
                     /\ dev.rxqs[i].elts_n = call.was.rxqs[i].elts_n
        /\ \A i \in DOMAIN dev.txqs :
                IF call.was.txqs[i].ptr = "NULL" THEN dev.txqs[i] = NoQueue("tx")
                ELSE /\ dev.txqs[i].stats = TxqStats(call.was.txqs[i].stats.idx)
                     /\ dev.txqs[i].elts_n = call.was.txqs[i].elts_n

(***************************************************************************)
(* Quiescence: polling threads inside the receive function while           *)
(* mlx4_dev_set_mtu() or mlx4_dev_close() runs on another thread. dev      *)
(* holds dev->rx_pkt_burst, the RX rings (st: whether the elements, the    *)
(* queue pair and the completion queue exist; gen: how often they were     *)
(* rebuilt), the position of the control thread (ctl) and, for the thread  *)
(* polling each ring, its position in the receive function and the         *)
(* generation of the ring it entered with (poll).                          *)
(***************************************************************************)
\* RX queues of the port, each polled by one thread.
QuiesceRings == 2
\* Calls of mlx4_dev_set_mtu() / mlx4_dev_close() followed.
MaxQuiesceOps == 2
\* Steps of the other threads the usleep(1000) is followed over.
DelayTicks == 1

Rings == 0..(QuiesceRings - 1)

InitQuiesce ==
    /\ dev = [rx_pkt_burst |-> "mlx4_rx_burst",
              ring |-> [r \in Rings |-> [st |-> "live", gen |-> 0]],
              ctl |-> [op |-> "none", at |-> "idle", i |-> 0, slept |-> 0, ops |-> 0],
              poll |-> [r \in Rings |-> [at |-> "out", gen |-> 0]]]
    /\ fault = "none"
    /\ txq = Unused /\ tally = Unused /\ submitted = Unused /\ sq = Unused
    /\ cq = Unused /\ mrs = Unused /\ call = Unused
    /\ rxq = Unused /\ rmbuf = Unused /\ rq = Unused /\ rcq = Unused /\ rcall = Unused

\* Whether the ring the thread polling r entered the receive function with
\* still exists.
RingIntact(d, r) == d.ring[r].st = "live" /\ d.ring[r].gen = d.poll[r].gen

\* The thread polling ring r calls (*dev->rx_pkt_burst)(rxq, pkts, pkts_n):
\* removed_rx_burst() returns 0 at once; the receive function is entered
\* with the elements of the ring as they are now. No lock is taken.
PollCall(r) ==
    /\ fault = "none"
    /\ dev.poll[r].at = "out"
    /\ dev.ring[r].st = "live"
    /\ dev' = IF dev.rx_pkt_burst = "removed_rx_burst" THEN dev
              ELSE [dev EXCEPT !.poll[r] = [at |-> "entered", gen |-> dev.ring[r].gen]]
    /\ UNCHANGED <<txvars, rxvars, fault>>

\* The next stretch of the receive function on ring r: ibv_poll_cq() on
\* rxq->cq, then the loop over the completions reading and writing the
\* elements, then ibv_post_recv() on rxq->qp and the return. On a ring that
\* was released meanwhile each of them uses freed memory or a destroyed
\* object: the process stops, or the stretch goes through.
PollStep(r) ==
    /\ dev.poll[r].at # "out"
    /\ fault = "none"
    /\ \/ /\ dev' = [dev EXCEPT !.poll[r].at =
                        IF @ = "entered" THEN "polled"
                        ELSE IF @ = "polled" THEN "elts"
                        ELSE "out"]
          /\ UNCHANGED fault
       \/ /\ ~RingIntact(dev, r)
          /\ fault' = "crash"
          /\ UNCHANGED dev
    /\ UNCHANGED <<txvars, rxvars>>

\* mlx4_dev_set_mtu() / mlx4_dev_close() up to usleep(): with priv->lock
\* taken, "dev->rx_pkt_burst = removed_rx_burst;".
CtlBegin ==
    /\ fault = "none"
    /\ dev.ctl.at = "idle"
    /\ dev.ctl.ops < MaxQuiesceOps
    /\ \E op \in {"set_mtu", "close"} :
        dev' = [dev EXCEPT !.rx_pkt_burst = "removed_rx_burst",
                           !.ctl = [op |-> op, at |-> "sleep", i |-> 0, slept |-> 0,
                                    ops |-> dev.ctl.ops + 1]]
    /\ UNCHANGED <<txvars, rxvars, fault>>

\* usleep(1000): time passes, then the call returns and the loop over the
\* RX queues begins. Nothing is known of the polling threads.
CtlSleep ==
    /\ fault = "none"
    /\ dev.ctl.at = "sleep"
    /\ dev' = IF dev.ctl.slept < DelayTicks
              THEN [dev EXCEPT !.ctl.slept = @ + 1]
              ELSE [dev EXCEPT !.ctl.at = "cleanup"]
    /\ UNCHANGED <<txvars, rxvars, fault>>

\* rxq_cleanup() of RX queue i: elements freed, queue pair and completion
\* queue destroyed. mlx4_dev_close() also frees the structure and goes to
\* the next queue.
CtlCleanup ==
    /\ fault = "none"
    /\ dev.ctl.at = "cleanup"
    /\ dev.ctl.i < QuiesceRings
    /\ dev' = [dev EXCEPT !.ring[dev.ctl.i].st = "freed",
                          !.ctl.at = IF dev.ctl.op = "set_mtu" THEN "setup" ELSE @,
                          !.ctl.i = IF dev.ctl.op = "set_mtu" THEN @ ELSE @ + 1]
    /\ UNCHANGED <<txvars, rxvars, fault>>

\* rxq_setup() of RX queue i in mlx4_dev_set_mtu(): new elements, queue
\* pair and completion queue.
CtlSetup ==
    /\ fault = "none"
    /\ dev.ctl.at = "setup"
    /\ dev' = [dev EXCEPT !.ring[dev.ctl.i] = [st |-> "live", gen |-> @.gen + 1],
                          !.ctl.at = "cleanup",
                          !.ctl.i = @ + 1]
    /\ UNCHANGED <<txvars, rxvars, fault>>

\* After the loop: mlx4_dev_set_mtu() restores the receive function
\* ("Burst functions can now be called again") and unlocks;
\* mlx4_dev_close() leaves the port closed.
CtlEnd ==
    /\ fault = "none"
    /\ dev.ctl.at = "cleanup"
    /\ dev.ctl.i = QuiesceRings
    /\ dev' = IF dev.ctl.op = "set_mtu"
              THEN [dev EXCEPT !.rx_pkt_burst = "mlx4_rx_burst", !.ctl.at = "idle"]
              ELSE [dev EXCEPT !.ctl.at = "closed"]
    /\ UNCHANGED <<txvars, rxvars, fault>>

NextQuiesce ==
    \/ \E r \in Rings : PollCall(r)
    \/ \E r \in Rings : PollStep(r)
    \/ CtlBegin
    \/ CtlSleep
    \/ CtlCleanup
    \/ CtlSetup
    \/ CtlEnd

SpecQuiesce == InitQuiesce /\ [][NextQuiesce]_vars

\* C38: a thread that is inside the receive function of a ring has the
\* ring it entered with: mlx4_dev_set_mtu() and mlx4_dev_close() release
\* the elements of a ring only when no thread is executing the receive
\* function on it.
C38_NoBurstDuringTeardown ==
    \A r \in Rings : dev.poll[r].at # "out" => RingIntact(dev, r)

====
